---- MODULE Spec2Model ----
(***************************************************************************)
(* The git-backed task store of git-task (src/src/lib.rs).                 *)
(*                                                                         *)
(* Strings the code parses or formats (task ids, tree entry names, commit  *)
(* messages) are sequences of one-character strings, so that parse::<u64>, *)
(* parse::<i64>, to_string and format!("action-{}", id) are computed and    *)
(* not assumed.  Option<T> is a sequence of length 0 (None) or 1 (Some).   *)
(* A git object id is identified with the content it names: a tree maps    *)
(* entry names to blob contents, a commit is an index into commits.        *)
(***************************************************************************)
EXTENDS Integers, Sequences, FiniteSets, TLC

VARIABLES
    commits,   \* the commit objects of the repository, in creation order
    refs,      \* reference path -> index of its commit in commits, 0 = no such reference
    config,    \* Option: the value of the config key task.ref
    last,      \* the last call of the store API: operation, arguments, outcome
    assigned,  \* the ids create_task has assigned through get_next_id, in order
    held,      \* Option: the Task object a caller has built and edits in memory
    pending    \* writer -> Option: the commit a call has prepared and not yet written

vars == <<commits, refs, config, last, assigned, held, pending>>

----------------------------------------------------------------------------
(* Bounds of the model *)

MaxCommits == 3

MaxChain == 12

MaxCreates == 6

MaxActs == 3

MaxAll == 4

MaxRef == 3

MaxComments == 3

MaxLabels == 3

MaxLater == 4

MaxRemotes == 2

MaxValueLen == 2

MaxConfigCommits == 1

MaxCommentMoves == 4

MaxRace == 3

MaxFind == 3

MaxNextId == 4

MaxReuse == 5

MaxRaceCreate == 3

----------------------------------------------------------------------------
(* Option<T> *)

None == <<>>

Some(x) == <<x>>

IsSome(o) == Len(o) = 1

Unwrap(o) == o[1]

----------------------------------------------------------------------------
(* Strings as sequences of characters *)

Digits == {"0", "1", "2", "3", "4", "5", "6", "7", "8", "9"}

DigitVal(c) ==
    CASE c = "0" -> 0 [] c = "1" -> 1 [] c = "2" -> 2 [] c = "3" -> 3
      [] c = "4" -> 4 [] c = "5" -> 5 [] c = "6" -> 6 [] c = "7" -> 7
      [] c = "8" -> 8 [] c = "9" -> 9

DigitChar(d) ==
    CASE d = 0 -> "0" [] d = 1 -> "1" [] d = 2 -> "2" [] d = 3 -> "3"
      [] d = 4 -> "4" [] d = 5 -> "5" [] d = 6 -> "6" [] d = 7 -> "7"
      [] d = 8 -> "8" [] d = 9 -> "9"

AllDigits(s) == \A i \in 1..Len(s) : s[i] \in Digits

RECURSIVE DigitsValue(_)
DigitsValue(s) ==
    IF Len(s) = 0 THEN 0
    ELSE 10 * DigitsValue(SubSeq(s, 1, Len(s) - 1)) + DigitVal(s[Len(s)])

\* str::parse::<u64>: an optional '+', then one or more decimal digits.
parse_u64(s) ==
    LET body == IF Len(s) > 0 /\ s[1] = "+" THEN Tail(s) ELSE s
    IN  IF Len(body) > 0 /\ AllDigits(body) THEN Some(DigitsValue(body)) ELSE None

\* A decimal magnitude without its leading zeros ("0" for zero).
RECURSIVE strip_zeros(_)
strip_zeros(digits) ==
    IF Len(digits) > 1 /\ digits[1] = "0" THEN strip_zeros(Tail(digits)) ELSE digits

\* Order of two magnitudes without leading zeros: by length, then digit by digit.
RECURSIVE magnitude_less(_, _)
magnitude_less(a, b) ==
    IF Len(a) # Len(b) THEN Len(a) < Len(b)
    ELSE IF Len(a) = 0 THEN FALSE
    ELSE IF a[1] # b[1] THEN DigitVal(a[1]) < DigitVal(b[1])
    ELSE magnitude_less(Tail(a), Tail(b))

\* i64::MAX = 9223372036854775807 and the magnitude of i64::MIN, as decimal digits.
I64MaxDigits ==
    <<"9", "2", "2", "3", "3", "7", "2", "0", "3", "6", "8", "5", "4", "7", "7", "5",
      "8", "0", "7">>

I64MinDigits ==
    <<"9", "2", "2", "3", "3", "7", "2", "0", "3", "6", "8", "5", "4", "7", "7", "5",
      "8", "0", "8">>

\* str::parse::<i64>: an optional '+' or '-', then one or more decimal digits, the
\* value within i64::MIN..i64::MAX.  The value is kept as sign and decimal magnitude,
\* so that all 64 bits are there.
parse_i64(s) ==
    LET neg  == Len(s) > 0 /\ s[1] = "-"
        body == IF Len(s) > 0 /\ s[1] \in {"+", "-"} THEN Tail(s) ELSE s
        mag  == strip_zeros(body)
    IN  IF Len(body) = 0 \/ ~AllDigits(body) THEN None
        ELSE IF magnitude_less(IF neg THEN I64MinDigits ELSE I64MaxDigits, mag) THEN None
        ELSE Some([neg |-> neg /\ mag # <<"0">>, mag |-> mag])

\* The magnitude plus one.
RECURSIVE magnitude_inc(_)
magnitude_inc(a) ==
    IF Len(a) = 0 THEN <<"1">>
    ELSE IF a[Len(a)] = "9" THEN magnitude_inc(SubSeq(a, 1, Len(a) - 1)) \o <<"0">>
    ELSE SubSeq(a, 1, Len(a) - 1) \o <<DigitChar(DigitVal(a[Len(a)]) + 1)>>

\* ToString for a non-negative integer: canonical decimal, no leading zero.
RECURSIVE to_string(_)
to_string(n) ==
    IF n < 10 THEN <<DigitChar(n)>>
    ELSE to_string(n \div 10) \o <<DigitChar(n % 10)>>

\* format!("action-{}", id)
action_name(id) == <<"a", "c", "t", "i", "o", "n", "-">> \o id

\* [String]::join(sep)
RECURSIVE join(_, _)
join(strs, sep) ==
    IF Len(strs) = 0 THEN <<>>
    ELSE IF Len(strs) = 1 THEN strs[1]
    ELSE strs[1] \o sep \o join(Tail(strs), sep)

----------------------------------------------------------------------------
(* Vec<u64>::sort *)

RECURSIVE insert_sorted(_, _)
insert_sorted(sorted, n) ==
    IF Len(sorted) = 0 THEN <<n>>
    ELSE IF n < sorted[1] THEN <<n>> \o sorted
    ELSE <<sorted[1]>> \o insert_sorted(Tail(sorted), n)

RECURSIVE sort(_)
sort(ns) ==
    IF Len(ns) = 0 THEN <<>>
    ELSE insert_sorted(sort(SubSeq(ns, 1, Len(ns) - 1)), ns[Len(ns)])

----------------------------------------------------------------------------
(* The codec: serde_json over the derived Serialize / Deserialize.          *)
(* A JSON value is [t, v]: t is its kind, v its content.                    *)

JNull == [t |-> "null", v |-> "null"]

JStr(s) == [t |-> "str", v |-> s]

JArr(s) == [t |-> "arr", v |-> s]

JObj(f) == [t |-> "obj", v |-> f]

\* Option<String>: None is null, Some(s) is the string.
opt_to_json(o) == IF IsSome(o) THEN JStr(Unwrap(o)) ELSE JNull

opt_from_json(j) == IF j.t = "null" THEN None ELSE Some(j.v)

\* HashMap<String, String>
props_to_json(props) == JObj([k \in DOMAIN props |-> JStr(props[k])])

props_from_json(j) == [k \in DOMAIN j.v |-> j.v[k].v]

comment_to_json(c) ==
    JObj([id |-> opt_to_json(c.id), props |-> props_to_json(c.props), text |-> JStr(c.text)])

comment_from_json(j) ==
    [id |-> opt_from_json(j.v.id), props |-> props_from_json(j.v.props), text |-> j.v.text.v]

label_to_json(l) ==
    JObj([name |-> JStr(l.name), color |-> opt_to_json(l.color),
          description |-> opt_to_json(l.description)])

label_from_json(j) ==
    [name |-> j.v.name.v, color |-> opt_from_json(j.v.color),
     description |-> opt_from_json(j.v.description)]

\* serde_json::to_string(&task)
task_to_json(task) ==
    JObj([id       |-> opt_to_json(task.id),
          props    |-> props_to_json(task.props),
          comments |-> IF IsSome(task.comments)
                       THEN JArr([i \in 1..Len(Unwrap(task.comments)) |->
                                     comment_to_json(Unwrap(task.comments)[i])])
                       ELSE JNull,
          labels   |-> IF IsSome(task.labels)
                       THEN JArr([i \in 1..Len(Unwrap(task.labels)) |->
                                     label_to_json(Unwrap(task.labels)[i])])
                       ELSE JNull])

\* serde_json::from_slice::<Task>: None stands for Err (the callers unwrap it).
task_from_json(j) ==
    IF j.t # "obj" THEN None
    ELSE Some([id       |-> opt_from_json(j.v.id),
               props    |-> props_from_json(j.v.props),
               comments |-> IF j.v.comments.t = "null" THEN None
                            ELSE Some([i \in 1..Len(j.v.comments.v) |->
                                          comment_from_json(j.v.comments.v[i])]),
               labels   |-> IF j.v.labels.t = "null" THEN None
                            ELSE Some([i \in 1..Len(j.v.labels.v) |->
                                          label_from_json(j.v.labels.v[i])])])

\* enum TaskAction: the variants, each serialised as its name.
TaskActions ==
    {"TaskCreate", "UpdateStatus", "SetProperty", "EditProperty", "DeleteProperty",
     "SearchReplaceProperty", "AddComment", "DeleteComment", "AddLabel", "UpdateLabel",
     "DeleteLabel", "UnknownUpdate"}

\* serde_json::to_string(&action)
action_to_json(a) == JStr(a)

\* serde_json::from_slice::<TaskAction>: a string that names a variant, else Err (None).
action_from_json(j) ==
    IF j.t = "str" /\ j.v \in TaskActions THEN Some(j.v) ELSE None

----------------------------------------------------------------------------
(* The repository adapter (git2), as far as the store uses it *)

EmptyTree == <<>>

\* libgit2 refuses an entry name that is empty or contains '/'.
valid_entry_name(name) ==
    Len(name) > 0 /\ \A i \in 1..Len(name) : name[i] # "/"

\* treebuilder_insert on a builder that was not filled from the source tree
treebuilder_insert_into_empty(tree, name, blob) == [n \in {name} |-> blob]

\* TreeBuilder::insert of a blob under a valid name: adds or overwrites the entry.
treebuilder_insert(tree, name, blob) ==
    [n \in (DOMAIN tree) \cup {name} |-> IF n = name THEN blob ELSE tree[n]]

\* TreeBuilder::remove: Err (None) when the builder has no entry of that name.
treebuilder_remove(tree, name) ==
    IF name \in DOMAIN tree
    THEN Some([n \in (DOMAIN tree) \ {name} |-> tree[n]])
    ELSE None

\* TreeBuilder::len
treebuilder_len(tree) == Cardinality(DOMAIN tree)

\* Tree::get_name
get_name(tree, name) == IF name \in DOMAIN tree THEN Some(tree[name]) ELSE None

DefaultRefPath == "refs/tasks/tasks"

OtherRefPath == "refs/heads/test-git-task"

RefPaths == {DefaultRefPath, OtherRefPath}

get_ref_path == IF IsSome(config) THEN Unwrap(config) ELSE DefaultRefPath

\* Repository::find_reference(..).is_ok()
reference_exists(path) == refs[path] # 0

\* Reference::peel_to_commit, as an index into commits
peel_to_commit(path) == refs[path]

\* Reference::peel_to_tree
peel_to_tree(path) == commits[refs[path]].tree

\* Repository::commit(Some(ref), .., message, tree, parents): the new commit object
new_commit(message, tree, parents) ==
    [message |-> message, tree |-> tree, parents |-> parents]

----------------------------------------------------------------------------
(* Reading the store *)

\* find_task that reports a missing reference as an error, as update_task does
find_task_requiring_reference(id) ==
    IF ~reference_exists(get_ref_path) THEN [status |-> "err", task |-> None]
    ELSE LET entry == get_name(peel_to_tree(get_ref_path), id)
         IN  IF ~IsSome(entry) THEN [status |-> "ok", task |-> None]
             ELSE IF ~IsSome(task_from_json(Unwrap(entry)))
                  THEN [status |-> "panic", task |-> None]
                  ELSE [status |-> "ok", task |-> task_from_json(Unwrap(entry))]

\* TaskContext::find_task: Ok(Some(task)), Ok(None); it panics when the blob is no Task.
find_task(id) ==
    IF ~reference_exists(get_ref_path) THEN [status |-> "ok", task |-> None]
    ELSE LET entry == get_name(peel_to_tree(get_ref_path), id)
         IN  IF ~IsSome(entry) THEN [status |-> "ok", task |-> None]
             ELSE IF ~IsSome(task_from_json(Unwrap(entry)))
                  THEN [status |-> "panic", task |-> None]
                  ELSE [status |-> "ok", task |-> task_from_json(Unwrap(entry))]

\* history_walk with the loop test counter <= limit
RECURSIVE history_walk_inclusive(_, _, _, _)
history_walk_inclusive(task_id, commit, counter, limit) ==
    IF ~(counter <= limit) THEN [status |-> "ok", actions |-> <<>>]
    ELSE LET entry == get_name(commits[commit].tree, action_name(task_id))
             e     == IF ~IsSome(entry) THEN None ELSE action_from_json(Unwrap(entry))
         IN  IF Len(commits[commit].parents) <= 0
             THEN [status |-> "ok", actions |-> <<e>>]
             ELSE [status  |-> "ok",
                   actions |-> <<e>> \o history_walk_inclusive(
                                   task_id, commits[commit].parents[1],
                                   counter + 1, limit).actions]

\* history_entry that reads the action only where the task itself is stored
history_entry_of_stored_task(task_id, commit) ==
    LET entry == get_name(commits[commit].tree, action_name(task_id))
    IN  IF ~IsSome(entry) \/ ~IsSome(get_name(commits[commit].tree, task_id)) THEN Some(None)
        ELSE IF ~IsSome(action_from_json(Unwrap(entry))) THEN None
             ELSE Some(action_from_json(Unwrap(entry)))

\* One turn of the loop of get_actions_from_history: the entry pushed for a commit.
\* None of the result stands for the panic of unwrap on a blob that is no TaskAction.
history_entry(task_id, commit) ==
    LET entry == get_name(commits[commit].tree, action_name(task_id))
    IN  IF ~IsSome(entry) THEN Some(None)
        ELSE IF ~IsSome(action_from_json(Unwrap(entry))) THEN None
             ELSE Some(action_from_json(Unwrap(entry)))

\* history_walk that ends at the first commit that does not store the task
RECURSIVE history_walk_of_stored_task(_, _, _, _)
history_walk_of_stored_task(task_id, commit, counter, limit) ==
    IF ~(counter < limit) \/ ~IsSome(get_name(commits[commit].tree, task_id))
    THEN [status |-> "ok", actions |-> <<>>]
    ELSE LET e == history_entry(task_id, commit)
         IN  IF ~IsSome(e) THEN [status |-> "panic", actions |-> <<>>]
             ELSE IF Len(commits[commit].parents) <= 0
                  THEN [status |-> "ok", actions |-> <<Unwrap(e)>>]
                  ELSE LET rest == history_walk_of_stored_task(
                                       task_id, commits[commit].parents[1], counter + 1, limit)
                       IN  [status  |-> rest.status,
                            actions |-> IF rest.status = "ok"
                                        THEN <<Unwrap(e)>> \o rest.actions ELSE <<>>]

\* The loop of get_actions_from_history from commit on: the actions pushed, newest first.
RECURSIVE history_walk(_, _, _, _)
history_walk(task_id, commit, counter, limit) ==
    IF ~(counter < limit) THEN [status |-> "ok", actions |-> <<>>]
    ELSE LET e == history_entry(task_id, commit)
         IN  IF ~IsSome(e) THEN [status |-> "panic", actions |-> <<>>]
             ELSE IF Len(commits[commit].parents) <= 0
                  THEN [status |-> "ok", actions |-> <<Unwrap(e)>>]
                  ELSE LET rest == history_walk(task_id, commits[commit].parents[1],
                                                counter + 1, limit)
                       IN  [status  |-> rest.status,
                            actions |-> IF rest.status = "ok"
                                        THEN <<Unwrap(e)>> \o rest.actions ELSE <<>>]

reverse(s) == [i \in 1..Len(s) |-> s[Len(s) + 1 - i]]

\* get_actions_from_history without actions.reverse()
get_actions_from_history_newest_first(task_id, commit, limit) ==
    LET w == history_walk(task_id, commit, 0, limit)
    IN  [status |-> w.status, actions |-> w.actions]

\* TaskContext::get_actions_from_history: oldest first.
get_actions_from_history(task_id, commit, limit) ==
    LET w == history_walk(task_id, commit, 0, limit)
    IN  [status |-> w.status, actions |-> reverse(w.actions)]

HistoryLimit == 10

\* TaskContext::get_task_history, read at the commit tip of the task reference
\* (tip = 0: the reference does not exist).
task_history_at(id, tip) ==
    IF tip = 0 THEN [status |-> "err", actions |-> <<>>]
    ELSE get_actions_from_history(id, tip, HistoryLimit)

get_task_history(id) == task_history_at(id, refs[get_ref_path])

\* The value of result when the tree walk of get_next_id ends: the greatest entry name
\* that parses as an i64 above 0, or 0.
walk_result(tree) ==
    LET ids == {parse_i64(n)[1].mag :
                    n \in {m \in DOMAIN tree : IsSome(parse_i64(m)) /\ ~parse_i64(m)[1].neg}}
                \cup {<<"0">>}
    IN  CHOOSE x \in ids : \A y \in ids : ~magnitude_less(x, y)

\* result + 1 leaves the i64 range: a panic where overflow checks are compiled in,
\* i64::MIN where they are not.
get_next_id_overflows ==
    /\ reference_exists(get_ref_path)
    /\ walk_result(peel_to_tree(get_ref_path)) = I64MaxDigits

\* get_next_id without the + 1
get_next_id_of_maximum ==
    IF refs[IF IsSome(config) THEN Unwrap(config) ELSE "refs/tasks/tasks"] = 0 THEN None
    ELSE Some(walk_result(commits[refs[IF IsSome(config) THEN Unwrap(config)
                                       ELSE "refs/tasks/tasks"]].tree))

\* TaskContext::get_next_id: Err (None) when the task reference does not exist; where
\* result + 1 overflows, the value of the build that wraps.
get_next_id ==
    IF ~reference_exists(get_ref_path) THEN None
    ELSE LET result == walk_result(peel_to_tree(get_ref_path))
         IN  Some(IF result = I64MaxDigits THEN <<"-">> \o I64MinDigits
                  ELSE magnitude_inc(result))

----------------------------------------------------------------------------
(* The record of a call: what was asked, how it ended, what it returned, and  *)
(* where the task reference pointed when the call began.                     *)

Call(op, status, task, action, ids, retTask, retId, retCount) ==
    [op |-> op, status |-> status, task |-> task, action |-> action, ids |-> ids,
     retTask |-> retTask, retId |-> retId, retCount |-> retCount,
     path |-> "", move |-> FALSE, base |-> 0,
     prePath |-> get_ref_path, preTip |-> refs[get_ref_path]]

\* A call that ended without writing a commit or a reference.
Fails(call) ==
    /\ last' = call
    /\ UNCHANGED <<commits, refs, config, assigned, held, pending>>

\* Repository::commit(Some(&self.get_ref_path()), ..): the commit is written and the
\* task reference is created or moved to it.
Commits(message, tree, parents) ==
    /\ commits' = Append(commits, new_commit(message, tree, parents))
    /\ refs' = [refs EXCEPT ![get_ref_path] = Len(commits) + 1]
    /\ UNCHANGED <<config, held, pending>>

\* A call of find_task: it reads, and reports what it found.
FindTask(id) ==
    /\ last' = Call("find_task", find_task(id).status, None, None, <<id>>,
                    find_task(id).task, None, 0)
    /\ UNCHANGED <<commits, refs, config, assigned, held, pending>>

----------------------------------------------------------------------------
(* create_task *)

\* The id the task is stored under: its own, or get_next_id, or "1" when that fails.
\* (Where get_next_id overflows, create_task either panics or goes on with this id.)
create_task_id(task) ==
    IF IsSome(task.id) THEN Unwrap(task.id)
    ELSE IF IsSome(get_next_id) THEN Unwrap(get_next_id) ELSE <<"1">>

\* create_task_tree with the two blob ids exchanged
create_task_tree_exchanged(source_tree, task) ==
    treebuilder_insert(
        treebuilder_insert(source_tree, Unwrap(task.id), action_to_json("TaskCreate")),
        action_name(Unwrap(task.id)), task_to_json(task))

\* The tree create_task writes: the source tree plus the task and its action entry.
create_task_tree(source_tree, task) ==
    treebuilder_insert(
        treebuilder_insert(source_tree, Unwrap(task.id), task_to_json(task)),
        action_name(Unwrap(task.id)), action_to_json("TaskCreate"))

\* create_task_parents that always starts a new root commit
create_task_parents_none == <<>>

\* The parents of the commit create_task writes.
create_task_parents ==
    IF reference_exists(get_ref_path) THEN <<peel_to_commit(get_ref_path)>> ELSE <<>>

create_task_message(id) == <<"Create task ">> \o id

CreateTask(task) ==
    LET source_tree == IF reference_exists(get_ref_path)
                       THEN peel_to_tree(get_ref_path) ELSE EmptyTree
        id          == create_task_id(task)
        stored      == [task EXCEPT !.id = Some(id)]
    IN  \/ /\ ~IsSome(task.id)
           /\ get_next_id_overflows
           /\ Fails(Call("create_task", "panic", Some(task), None, <<>>, None, None, 0))
        \/ IF ~valid_entry_name(id)
           THEN Fails(Call("create_task", "err", Some(task), None, <<>>, None, None, 0))
           ELSE /\ Commits(create_task_message(id), create_task_tree(source_tree, stored),
                           create_task_parents)
                /\ assigned' = IF IsSome(task.id) THEN assigned ELSE Append(assigned, id)
                /\ last' = Call("create_task", "ok", Some(task), None, <<>>,
                                Some(stored), Some(id), 0)

----------------------------------------------------------------------------
(* update_task_v2, and update_task = update_task_v2(task, None) *)

\* update_task_tree that never writes the action entry
update_task_tree_without_action(source_tree, task, action) ==
    treebuilder_insert(source_tree, Unwrap(task.id), task_to_json(task))

\* update_task_tree that writes UnknownUpdate when no action is given
update_task_tree_default_action(source_tree, task, action) ==
    treebuilder_insert(
        treebuilder_insert(source_tree, Unwrap(task.id), task_to_json(task)),
        action_name(Unwrap(task.id)),
        action_to_json(IF IsSome(action) THEN Unwrap(action) ELSE "UnknownUpdate"))

\* The tree update_task_v2 writes.
update_task_tree(source_tree, task, action) ==
    LET with_task == treebuilder_insert(source_tree, Unwrap(task.id), task_to_json(task))
    IN  IF IsSome(action)
        THEN treebuilder_insert(with_task, action_name(Unwrap(task.id)),
                                action_to_json(Unwrap(action)))
        ELSE with_task

update_task_message(id) == <<"Update task ">> \o id

UpdateTaskV2(task, action) ==
    IF ~reference_exists(get_ref_path)
    THEN Fails(Call("update_task_v2", "err", Some(task), action, <<>>, None, None, 0))
    ELSE IF ~IsSome(task.id)
    THEN Fails(Call("update_task_v2", "panic", Some(task), action, <<>>, None, None, 0))
    ELSE IF ~valid_entry_name(Unwrap(task.id))
    THEN Fails(Call("update_task_v2", "err", Some(task), action, <<>>, None, None, 0))
    ELSE /\ Commits(update_task_message(Unwrap(task.id)),
                    update_task_tree(peel_to_tree(get_ref_path), task, action),
                    <<peel_to_commit(get_ref_path)>>)
         /\ last' = Call("update_task_v2", "ok", Some(task), action, <<>>,
                         None, task.id, 0)
         /\ UNCHANGED assigned

----------------------------------------------------------------------------
(* delete_tasks *)

\* delete_tasks_tree that removes the action entry with the task entry
RECURSIVE delete_tasks_tree_with_actions(_, _)
delete_tasks_tree_with_actions(tree, ids) ==
    IF Len(ids) = 0 THEN Some(tree)
    ELSE IF ids[1] \notin DOMAIN tree THEN None
    ELSE delete_tasks_tree_with_actions(
             [n \in (DOMAIN tree) \ {ids[1], action_name(ids[1])} |-> tree[n]], Tail(ids))

\* delete_tasks_tree that passes over an id the builder has no entry of
RECURSIVE delete_tasks_tree_skipping_missing(_, _)
delete_tasks_tree_skipping_missing(tree, ids) ==
    IF Len(ids) = 0 THEN Some(tree)
    ELSE delete_tasks_tree_skipping_missing(
             [n \in (DOMAIN tree) \ {ids[1]} |-> tree[n]], Tail(ids))

\* The loop of treebuilder.remove over ids: None when a remove fails.
RECURSIVE delete_tasks_tree(_, _)
delete_tasks_tree(tree, ids) ==
    IF Len(ids) = 0 THEN Some(tree)
    ELSE LET removed == treebuilder_remove(tree, ids[1])
         IN  IF IsSome(removed) THEN delete_tasks_tree(Unwrap(removed), Tail(ids)) ELSE None

\* ids.iter().map(|id| id.parse::<u64>().unwrap()) does not panic
delete_tasks_ids_parse(ids) == \A i \in 1..Len(ids) : IsSome(parse_u64(ids[i]))

\* delete_tasks_message without ids.sort()
delete_tasks_message_unsorted(ids) ==
    <<"Delete task ">> \o
        join([i \in 1..Len(ids) |-> to_string(Unwrap(parse_u64(ids[i])))], <<",", " ">>)

\* The commit message of delete_tasks: the ids parsed, sorted, printed and joined.
delete_tasks_message(ids) ==
    LET parsed  == [i \in 1..Len(ids) |-> Unwrap(parse_u64(ids[i]))]
        sorted  == sort(parsed)
        printed == [i \in 1..Len(sorted) |-> to_string(sorted[i])]
    IN  <<"Delete task ">> \o join(printed, <<",", " ">>)

DeleteTasks(ids) ==
    IF ~reference_exists(get_ref_path)
    THEN Fails(Call("delete_tasks", "err", None, None, ids, None, None, 0))
    ELSE IF ~IsSome(delete_tasks_tree(peel_to_tree(get_ref_path), ids))
    THEN Fails(Call("delete_tasks", "err", None, None, ids, None, None, 0))
    ELSE IF ~delete_tasks_ids_parse(ids)
    THEN Fails(Call("delete_tasks", "panic", None, None, ids, None, None, 0))
    ELSE /\ Commits(delete_tasks_message(ids),
                    Unwrap(delete_tasks_tree(peel_to_tree(get_ref_path), ids)),
                    <<peel_to_commit(get_ref_path)>>)
         /\ last' = Call("delete_tasks", "ok", None, None, ids, None, None, 0)
         /\ UNCHANGED assigned

----------------------------------------------------------------------------
(* clear_tasks *)

\* clear_tasks that tolerates a missing reference the way create_task does
ClearTasks_tolerant ==
    /\ commits' = Append(commits, new_commit(<<"Clear tasks">>, <<>>,
                         IF refs[get_ref_path] = 0 THEN <<>> ELSE <<refs[get_ref_path]>>))
    /\ refs' = [refs EXCEPT ![get_ref_path] = Len(commits) + 1]
    /\ last' = Call("clear_tasks", "ok", None, None, <<>>, None, None,
                    IF refs[get_ref_path] = 0 THEN 0
                    ELSE Cardinality(DOMAIN commits[refs[get_ref_path]].tree) \div 2)
    /\ UNCHANGED <<config, assigned, held, pending>>

\* clear_tasks that deletes the reference instead of committing an empty tree
ClearTasks_deleting_ref ==
    /\ refs' = [refs EXCEPT ![get_ref_path] = 0]
    /\ last' = Call("clear_tasks", "ok", None, None, <<>>, None, None, 0)
    /\ UNCHANGED <<commits, config, assigned, held, pending>>

\* task_count = (treebuilder.len() / 2) as u64
clear_tasks_count(tree) == treebuilder_len(tree) \div 2

clear_tasks_message == <<"Clear tasks">>

ClearTasks ==
    IF ~reference_exists(get_ref_path)
    THEN Fails(Call("clear_tasks", "err", None, None, <<>>, None, None, 0))
    ELSE /\ Commits(clear_tasks_message, EmptyTree, <<peel_to_commit(get_ref_path)>>)
         /\ last' = Call("clear_tasks", "ok", None, None, <<>>, None, None,
                         clear_tasks_count(peel_to_tree(get_ref_path)))
         /\ UNCHANGED assigned

----------------------------------------------------------------------------
(* update_task_id *)

\* update_task_id without task.set_id(new_id)
UpdateTaskId_without_set_id(id, new_id) ==
    LET found == find_task(id)
        args  == <<id, new_id>>
    IN  IF found.status = "panic" \/ ~IsSome(found.task)
        THEN Fails(Call("update_task_id", "panic", None, None, args, None, None, 0))
        ELSE IF ~valid_entry_name(new_id)
        THEN Fails(Call("update_task_id", "err", None, None, args, None, None, 0))
        ELSE LET moved   == Unwrap(found.task)
                 created == create_task_tree(peel_to_tree(get_ref_path), moved)
                 first   == new_commit(create_task_message(id), created,
                                       create_task_parents)
                 removed == delete_tasks_tree(created, <<id>>)
                 deletes == IsSome(removed) /\ delete_tasks_ids_parse(<<id>>)
             IN  /\ commits' =
                        IF deletes
                        THEN commits \o <<first, new_commit(delete_tasks_message(<<id>>),
                                                           Unwrap(removed),
                                                           <<Len(commits) + 1>>)>>
                        ELSE Append(commits, first)
                 /\ refs' = [refs EXCEPT ![get_ref_path] = Len(commits')]
                 /\ last' = Call("update_task_id",
                                 IF deletes THEN "ok"
                                 ELSE IF IsSome(removed) THEN "panic" ELSE "err",
                                 Some(moved), None, args, None, None, 0)
                 /\ UNCHANGED <<config, assigned, held, pending>>

UpdateTaskId(id, new_id) ==
    LET found == find_task(id)
        args  == <<id, new_id>>
    IN  IF found.status = "panic" \/ ~IsSome(found.task)
        THEN Fails(Call("update_task_id", "panic", None, None, args, None, None, 0))
        ELSE IF ~valid_entry_name(new_id)
        THEN Fails(Call("update_task_id", "err", None, None, args, None, None, 0))
        ELSE LET moved   == [Unwrap(found.task) EXCEPT !.id = Some(new_id)]
                 created == create_task_tree(peel_to_tree(get_ref_path), moved)
                 first   == new_commit(create_task_message(new_id), created,
                                       create_task_parents)
                 removed == delete_tasks_tree(created, <<id>>)
                 deletes == IsSome(removed) /\ delete_tasks_ids_parse(<<id>>)
             IN  /\ commits' =
                        IF deletes
                        THEN commits \o <<first, new_commit(delete_tasks_message(<<id>>),
                                                           Unwrap(removed),
                                                           <<Len(commits) + 1>>)>>
                        ELSE Append(commits, first)
                 /\ refs' = [refs EXCEPT ![get_ref_path] = Len(commits')]
                 /\ last' = Call("update_task_id",
                                 IF deletes THEN "ok"
                                 ELSE IF IsSome(removed) THEN "panic" ELSE "err",
                                 Some(moved), None, args, None, None, 0)
                 /\ UNCHANGED <<config, assigned, held, pending>>

----------------------------------------------------------------------------
(* update_comment_id *)

\* updated_comments that stops at the first comment carrying the id
updated_comments_first_only(comments, id, new_id) ==
    [i \in 1..Len(comments) |->
        IF comments[i].id = Some(id) /\ \A j \in 1..(i - 1) : comments[j].id # Some(id)
        THEN [comments[i] EXCEPT !.id = Some(new_id)]
        ELSE comments[i]]

\* The closure of update_comment_id: the comments with id rewritten to new_id.
updated_comments(comments, id, new_id) ==
    [i \in 1..Len(comments) |->
        IF comments[i].id = Some(id)
        THEN [comments[i] EXCEPT !.id = Some(new_id)]
        ELSE comments[i]]

\* update_comment_id that commits only when some comment carried the id
UpdateCommentId_only_when_changed(task_id, id, new_id) ==
    LET found == find_task(task_id)
        args  == <<task_id, id, new_id>>
    IN  IF found.status = "panic" \/ ~IsSome(found.task)
        THEN Fails(Call("update_comment_id", "panic", None, None, args, None, None, 0))
        ELSE IF \/ ~IsSome(Unwrap(found.task).comments)
                \/ \A i \in 1..Len(Unwrap(Unwrap(found.task).comments)) :
                       Unwrap(Unwrap(found.task).comments)[i].id # Some(id)
        THEN /\ last' = Call("update_comment_id", "ok", found.task, None, args,
                             None, None, 0)
             /\ UNCHANGED <<commits, refs, config, assigned, held, pending>>
        ELSE /\ Commits(update_task_message(task_id),
                        update_task_tree(peel_to_tree(get_ref_path),
                            [Unwrap(found.task) EXCEPT !.comments =
                                Some(updated_comments(Unwrap(Unwrap(found.task).comments),
                                                      id, new_id))], None),
                        <<peel_to_commit(get_ref_path)>>)
             /\ last' = Call("update_comment_id", "ok", found.task, None, args,
                             None, None, 0)
             /\ UNCHANGED assigned

UpdateCommentId(task_id, id, new_id) ==
    LET found == find_task(task_id)
        args  == <<task_id, id, new_id>>
    IN  IF found.status = "panic" \/ ~IsSome(found.task)
        THEN Fails(Call("update_comment_id", "panic", None, None, args, None, None, 0))
        ELSE IF ~IsSome(Unwrap(found.task).comments)
        THEN /\ last' = Call("update_comment_id", "ok", found.task, None, args,
                             None, None, 0)
             /\ UNCHANGED <<commits, refs, config, assigned, held, pending>>
        ELSE IF \E i \in 1..Len(Unwrap(Unwrap(found.task).comments)) :
                    ~IsSome(Unwrap(Unwrap(found.task).comments)[i].id)
        THEN Fails(Call("update_comment_id", "panic", None, None, args, None, None, 0))
        ELSE LET updated ==
                     [Unwrap(found.task) EXCEPT !.comments =
                         Some(updated_comments(Unwrap(Unwrap(found.task).comments),
                                               id, new_id))]
             IN  IF ~IsSome(updated.id)
                 THEN Fails(Call("update_comment_id", "panic", None, None, args,
                                 None, None, 0))
                 ELSE /\ Commits(update_task_message(Unwrap(updated.id)),
                                 update_task_tree(peel_to_tree(get_ref_path), updated, None),
                                 <<peel_to_commit(get_ref_path)>>)
                      /\ last' = Call("update_comment_id", "ok", Some(updated), None, args,
                                      None, None, 0)
                      /\ UNCHANGED assigned

----------------------------------------------------------------------------
(* list_tasks *)

\* The byte of a character, for the characters entry names are made of.
CharCode(c) ==
    CASE c = "+" -> 43 [] c = "-" -> 45 [] c = "/" -> 47
      [] c \in Digits -> 48 + DigitVal(c)
      [] c = "a" -> 97 [] c = "c" -> 99 [] c = "i" -> 105
      [] c = "n" -> 110 [] c = "o" -> 111 [] c = "t" -> 116

\* git orders the entries of a tree by the bytes of their names.
RECURSIVE name_less(_, _)
name_less(a, b) ==
    IF Len(b) = 0 THEN FALSE
    ELSE IF Len(a) = 0 THEN TRUE
    ELSE IF a[1] # b[1] THEN CharCode(a[1]) < CharCode(b[1])
    ELSE name_less(Tail(a), Tail(b))

\* Tree::walk(TreeWalkMode::PreOrder, ..): the entry names in the order they are visited.
RECURSIVE tree_walk(_)
tree_walk(names) ==
    IF names = {} THEN <<>>
    ELSE LET first == CHOOSE n \in names : \A m \in names \ {n} : name_less(n, m)
         IN  <<first>> \o tree_walk(names \ {first})

\* TaskContext::list_tasks: every entry visited is deserialised as a Task and unwrapped.
list_tasks ==
    IF ~reference_exists(get_ref_path) THEN [status |-> "err", tasks |-> <<>>]
    ELSE LET tree  == peel_to_tree(get_ref_path)
             names == tree_walk(DOMAIN tree)
         IN  IF \E i \in 1..Len(names) : ~IsSome(task_from_json(tree[names[i]]))
             THEN [status |-> "panic", tasks |-> <<>>]
             ELSE [status |-> "ok",
                   tasks  |-> [i \in 1..Len(names) |-> Unwrap(task_from_json(tree[names[i]]))]]

----------------------------------------------------------------------------
(* set_ref_path *)

\* set_ref_path that stores task.ref only when it has migrated a reference
SetRefPath_config_with_reference(ref_path, move_ref) ==
    LET current == get_ref_path
        exists  == reference_exists(current)
        created == IF exists
                   THEN [refs EXCEPT ![ref_path] = peel_to_commit(current)]
                   ELSE refs
    IN  /\ refs' = IF move_ref /\ exists THEN [created EXCEPT ![current] = 0] ELSE created
        /\ config' = IF exists THEN Some(ref_path) ELSE config
        /\ last' = [Call("set_ref_path", "ok", None, None, <<>>, None, None, 0)
                       EXCEPT !.path = ref_path, !.move = move_ref]
        /\ UNCHANGED <<commits, assigned, held, pending>>

SetRefPath(ref_path, move_ref) ==
    LET current == get_ref_path
        exists  == reference_exists(current)
        created == IF exists
                   THEN [refs EXCEPT ![ref_path] = peel_to_commit(current)]
                   ELSE refs
    IN  /\ refs' = IF move_ref /\ exists THEN [created EXCEPT ![current] = 0] ELSE created
        /\ config' = Some(ref_path)
        /\ last' = [Call("set_ref_path", "ok", None, None, <<>>, None, None, 0)
                       EXCEPT !.path = ref_path, !.move = move_ref]
        /\ UNCHANGED <<commits, assigned, held, pending>>

----------------------------------------------------------------------------
(* Task: the object a caller builds and edits in memory *)

\* SystemTime::now() .. as_secs(): the clock reading, the same throughout a run.
get_current_timestamp == 100

\* HashMap::insert
hashmap_insert(props, key, value) ==
    [k \in (DOMAIN props) \cup {key} |-> IF k = key THEN value ELSE props[k]]

\* HashMap::remove
hashmap_remove(props, key) == [k \in (DOMAIN props) \ {key} |-> props[k]]

\* HashMap::get(key).unwrap_or("")
hashmap_get_or_empty(props, key) == IF key \in DOMAIN props THEN props[key] ELSE ""

construct_task(name, description, status, current_user, created) ==
    LET props == [name |-> name, description |-> description, status |-> status,
                  created |-> ToString(IF IsSome(created) THEN Unwrap(created)
                                       ELSE get_current_timestamp)]
    IN  [id       |-> None,
         props    |-> IF IsSome(current_user)
                      THEN hashmap_insert(props, "author", Unwrap(current_user))
                      ELSE props,
         comments |-> None,
         labels   |-> None]

\* A Task method that returned: the object it leaves and what it reports.
Edits(op, status, task, args) ==
    /\ held' = task
    /\ last' = Call(op, status, task, None, args, None, None, 0)
    /\ UNCHANGED <<commits, refs, config, assigned, pending>>

\* Task::new that checks the name only
TaskNew_checking_name_only(name, description, status, author) ==
    IF name # ""
    THEN Edits("new", "ok", Some(construct_task(name, description, status, author, None)),
               <<name, status>>)
    ELSE Edits("new", "err", held, <<name, status>>)

TaskNew(name, description, status, author) ==
    IF name # "" /\ status # ""
    THEN Edits("new", "ok", Some(construct_task(name, description, status, author, None)),
               <<name, status>>)
    ELSE Edits("new", "err", held, <<name, status>>)

TaskFromProperties(id, props) ==
    IF hashmap_get_or_empty(props, "name") # "" /\ hashmap_get_or_empty(props, "status") # ""
    THEN Edits("from_properties", "ok",
               Some([id       |-> Some(id),
                     props    |-> IF "created" \in DOMAIN props THEN props
                                  ELSE hashmap_insert(props, "created",
                                                      ToString(get_current_timestamp)),
                     comments |-> None,
                     labels   |-> None]),
               <<id, props>>)
    ELSE Edits("from_properties", "err", held, <<id, props>>)

SetProperty(prop, value) ==
    /\ IsSome(held)
    /\ Edits("set_property", "ok",
             Some([Unwrap(held) EXCEPT !.props = hashmap_insert(@, prop, value)]),
             <<prop, value>>)

DeleteProperty(prop) ==
    /\ IsSome(held)
    /\ Edits("delete_property",
             IF prop \in DOMAIN Unwrap(held).props THEN "ok" ELSE "err",
             Some([Unwrap(held) EXCEPT !.props = hashmap_remove(@, prop)]),
             <<prop>>)

\* The comments of a task, an absent list read as empty
comments_of(task) == IF IsSome(task.comments) THEN Unwrap(task.comments) ELSE <<>>

\* The comment add_comment builds.
new_comment(task, id, props, text, author) ==
    LET created  == IF "created" \in DOMAIN props THEN props
                    ELSE hashmap_insert(props, "created", ToString(get_current_timestamp))
        authored == IF "author" \notin DOMAIN created /\ IsSome(author)
                    THEN hashmap_insert(created, "author", Unwrap(author))
                    ELSE created
    IN  [id    |-> Some(IF IsSome(id) THEN Unwrap(id)
                        ELSE to_string(Len(comments_of(task)) + 1)),
         props |-> authored,
         text  |-> text]

AddComment(id, props, text, author) ==
    /\ IsSome(held)
    /\ Len(comments_of(Unwrap(held))) < MaxComments
    /\ Edits("add_comment", "ok",
             Some([Unwrap(held) EXCEPT !.comments =
                      Some(Append(comments_of(Unwrap(held)),
                                  new_comment(Unwrap(held), id, props, text, author)))]),
             <<id>>)

\* position that reports the last index at which the test holds
position_of_last(tests) ==
    IF \E i \in 1..Len(tests) : tests[i]
    THEN CHOOSE i \in 1..Len(tests) : tests[i] /\ \A j \in (i + 1)..Len(tests) : ~tests[j]
    ELSE 0

\* Iterator::position: the first index at which the test holds, 0 when none.
position(tests) ==
    IF \E i \in 1..Len(tests) : tests[i]
    THEN CHOOSE i \in 1..Len(tests) : tests[i] /\ \A j \in 1..(i - 1) : ~tests[j]
    ELSE 0

\* Vec::remove(index)
vec_remove(v, index) == SubSeq(v, 1, index - 1) \o SubSeq(v, index + 1, Len(v))

DeleteComment(id) ==
    /\ IsSome(held)
    /\ LET comments == comments_of(Unwrap(held))
           index    == position([i \in 1..Len(comments) |->
                                    ~IsSome(comments[i].id) \/ Unwrap(comments[i].id) = id])
       IN  IF ~IsSome(Unwrap(held).comments) \/ index = 0
           THEN Edits("delete_comment", "err", held, <<id>>)
           ELSE IF ~IsSome(comments[index].id)
           THEN Edits("delete_comment", "panic", held, <<id>>)
           ELSE Edits("delete_comment", "ok",
                      Some([Unwrap(held) EXCEPT !.comments =
                               Some(vec_remove(comments, index))]),
                      <<id>>)

\* The labels of a task, an absent list read as empty
labels_of(task) == IF IsSome(task.labels) THEN Unwrap(task.labels) ELSE <<>>

AddLabel(name, description, color) ==
    /\ IsSome(held)
    /\ Len(labels_of(Unwrap(held))) < MaxLabels
    /\ Edits("add_label", "ok",
             Some([Unwrap(held) EXCEPT !.labels =
                      Some(Append(labels_of(Unwrap(held)),
                                  [name |-> name, color |-> color,
                                   description |-> description]))]),
             <<name>>)

DeleteLabel(name) ==
    /\ IsSome(held)
    /\ LET labels == labels_of(Unwrap(held))
           index  == position([i \in 1..Len(labels) |-> labels[i].name = name])
       IN  IF ~IsSome(Unwrap(held).labels) \/ index = 0
           THEN Edits("delete_label", "err", held, <<name>>)
           ELSE Edits("delete_label", "ok",
                      Some([Unwrap(held) EXCEPT !.labels = Some(vec_remove(labels, index))]),
                      <<name>>)

\* Task::get_label_by_name
get_label_by_name(task, name) ==
    LET labels == labels_of(task)
        index  == position([i \in 1..Len(labels) |-> labels[i].name = name])
    IN  IF index = 0 THEN None ELSE Some(labels[index])

----------------------------------------------------------------------------
(* task_config_set("task.ref", value, move_ref) *)

\* value.chars().filter(|c| *c == '/').count()
count_slashes(value) == Cardinality({i \in 1..Len(value) : value[i] = "/"})

\* "refs/heads/" and "refs/", as characters
RefsHeadsPrefix == <<"r", "e", "f", "s", "/", "h", "e", "a", "d", "s", "/">>

RefsPrefix == <<"r", "e", "f", "s", "/">>

\* The match on value with the starts_with / ends_with guards left out
task_ref_value_unguarded(value) ==
    IF count_slashes(value) = 0 THEN RefsHeadsPrefix \o value
    ELSE IF count_slashes(value) = 1 THEN RefsPrefix \o value
    ELSE value

\* The match on value in the "task.ref" arm: the path handed to set_ref_path.
task_ref_value(value) ==
    IF count_slashes(value) = 0 THEN RefsHeadsPrefix \o value
    ELSE IF /\ count_slashes(value) = 1
            /\ value[1] # "/"
            /\ value[Len(value)] # "/"
         THEN RefsPrefix \o value
         ELSE value

\* The characters as one string: the form in which paths key the references.
RECURSIVE path_string(_)
path_string(chars) == IF Len(chars) = 0 THEN "" ELSE chars[1] \o path_string(Tail(chars))

\* Repository::reference accepts the name: no empty path component.
reference_name_valid(name) ==
    /\ Len(name) > 0
    /\ name[1] # "/"
    /\ name[Len(name)] # "/"
    /\ \A i \in 1..(Len(name) - 1) : ~(name[i] = "/" /\ name[i + 1] = "/")

TaskConfigSet(value, move_ref) ==
    LET ref_path == path_string(task_ref_value(value))
        current  == get_ref_path
        exists   == reference_exists(current)
        created  == IF exists
                    THEN [refs EXCEPT ![ref_path] = peel_to_commit(current)]
                    ELSE refs
        call(status) ==
            [Call("task_config_set", status, None, None, <<value>>, None,
                  Some(task_ref_value(value)), 0)
                EXCEPT !.path = ref_path, !.move = move_ref]
    IN  IF exists /\ ~reference_name_valid(task_ref_value(value))
        THEN Fails(call("err"))
        ELSE /\ refs' = IF move_ref /\ exists THEN [created EXCEPT ![current] = 0]
                        ELSE created
             /\ config' = Some(ref_path)
             /\ last' = call("ok")
             /\ UNCHANGED <<commits, assigned, held, pending>>

----------------------------------------------------------------------------
(* connectors: the registry and get_matching_remote_connectors *)

\* fn connectors: the four adapters in registry order.
connectors ==
    <<"GithubRemoteConnector", "GitlabRemoteConnector",
      "JiraRemoteConnector", "RedmineRemoteConnector">>

\* RemoteConnector::type_name
type_name(connector) ==
    CASE connector = "GithubRemoteConnector"  -> "github"
      [] connector = "GitlabRemoteConnector"  -> "gitlab"
      [] connector = "JiraRemoteConnector"    -> "jira"
      [] connector = "RedmineRemoteConnector" -> "redmine"

\* The remote URLs of a repository.
RemoteUrls == {"https://github.com/alice/app", "https://gitlab.com/bob/lib",
               "https://tracker.example.org/team/proj", "file:///srv/bare.git"}

\* RemoteConnector::supports_remote: the (user, repo) pair an adapter extracts
\* from a URL it recognises. Two adapters recognise the self-hosted tracker.
supports_remote(connector, url) ==
    CASE connector = "GithubRemoteConnector" /\ url = "https://github.com/alice/app"
            -> Some(<<"alice", "app">>)
      [] connector = "GitlabRemoteConnector" /\ url = "https://gitlab.com/bob/lib"
            -> Some(<<"bob", "lib">>)
      [] connector \in {"JiraRemoteConnector", "RedmineRemoteConnector"}
            /\ url = "https://tracker.example.org/team/proj"
            -> Some(<<"team", "proj">>)
      [] OTHER -> None

\* The inner loop of get_matching_remote_connectors: the adapters from the
\* k-th on, tried on one remote.
RECURSIVE matching_for_remote(_, _, _)
matching_for_remote(remote, connector_type, k) ==
    IF k > Len(connectors) THEN <<>>
    ELSE LET connector == connectors[k]
             rest      == matching_for_remote(remote, connector_type, k + 1)
         IN  IF IsSome(connector_type) /\ Unwrap(connector_type) # type_name(connector)
             THEN rest
             ELSE IF IsSome(supports_remote(connector, remote))
             THEN <<<<connector, Unwrap(supports_remote(connector, remote))[1],
                      Unwrap(supports_remote(connector, remote))[2]>>>> \o rest
             ELSE rest

\* get_matching_remote_connectors with the two loops exchanged
get_matching_remote_connectors_by_adapter(remotes, connector_type) ==
    LET RECURSIVE per_adapter(_, _)
        per_adapter(k, i) ==
            IF k > Len(connectors) THEN <<>>
            ELSE IF i > Len(remotes) THEN per_adapter(k + 1, 1)
            ELSE LET hit == supports_remote(connectors[k], remotes[i])
                 IN  IF (IsSome(connector_type) =>
                            Unwrap(connector_type) = type_name(connectors[k]))
                        /\ IsSome(hit)
                     THEN <<<<connectors[k], Unwrap(hit)[1], Unwrap(hit)[2]>>>>
                              \o per_adapter(k, i + 1)
                     ELSE per_adapter(k, i + 1)
    IN  per_adapter(1, 1)

\* get_matching_remote_connectors: for each remote, each adapter in registry order.
RECURSIVE get_matching_remote_connectors(_, _)
get_matching_remote_connectors(remotes, connector_type) ==
    IF Len(remotes) = 0 THEN <<>>
    ELSE matching_for_remote(remotes[1], connector_type, 1)
             \o get_matching_remote_connectors(Tail(remotes), connector_type)

GetMatchingRemoteConnectors(remotes, connector_type) ==
    /\ last' = Call("get_matching_remote_connectors", "ok", None, connector_type, remotes,
                    get_matching_remote_connectors(remotes, connector_type), None, 0)
    /\ UNCHANGED <<commits, refs, config, assigned, held, pending>>

----------------------------------------------------------------------------
(* A mutator run by one of two processes, in its two steps: the read of the *)
(* task reference with the derivation of the new tree, and repo.commit.     *)
(* A call that fails before repo.commit is the failing case of the actions  *)
(* above.                                                                   *)

Writers == {1, 2}

\* commit_accepted that compares the tip with the first parent only when there is one
commit_accepted_with_parents_only(path, parents) ==
    ~reference_exists(path) \/ Len(parents) = 0 \/ parents[1] = peel_to_commit(path)

\* repo.commit that moves the reference whatever it points at
commit_accepted_unchecked(path, parents) == TRUE

\* Repository::commit(Some(ref), ..): the library refuses the commit when the
\* reference exists and its target is not the first parent given.
commit_accepted(path, parents) ==
    ~reference_exists(path) \/ (Len(parents) > 0 /\ parents[1] = peel_to_commit(path))

\* What a call holds between its read and its repo.commit.
Prepared(op, path, message, tree, parents) ==
    [op |-> op, path |-> path, message |-> message, tree |-> tree, parents |-> parents]

Prepares(w, prepared) ==
    /\ pending[w] = None
    /\ pending' = [pending EXCEPT ![w] = Some(prepared)]
    /\ UNCHANGED <<commits, refs, config, last, held>>

\* create_task up to repo.commit
ReadForCreate(w, task) ==
    LET source_tree == IF reference_exists(get_ref_path)
                       THEN peel_to_tree(get_ref_path) ELSE EmptyTree
        id          == create_task_id(task)
    IN  /\ valid_entry_name(id)
        /\ Prepares(w, Prepared("create_task", get_ref_path, create_task_message(id),
                                create_task_tree(source_tree, [task EXCEPT !.id = Some(id)]),
                                create_task_parents))
        /\ assigned' = IF IsSome(task.id) THEN assigned ELSE Append(assigned, id)

\* update_task_v2 up to repo.commit
ReadForUpdate(w, task, action) ==
    /\ reference_exists(get_ref_path)
    /\ IsSome(task.id)
    /\ valid_entry_name(Unwrap(task.id))
    /\ Prepares(w, Prepared("update_task_v2", get_ref_path,
                            update_task_message(Unwrap(task.id)),
                            update_task_tree(peel_to_tree(get_ref_path), task, action),
                            <<peel_to_commit(get_ref_path)>>))
    /\ UNCHANGED assigned

\* delete_tasks up to repo.commit
ReadForDelete(w, ids) ==
    /\ reference_exists(get_ref_path)
    /\ IsSome(delete_tasks_tree(peel_to_tree(get_ref_path), ids))
    /\ delete_tasks_ids_parse(ids)
    /\ Prepares(w, Prepared("delete_tasks", get_ref_path, delete_tasks_message(ids),
                            Unwrap(delete_tasks_tree(peel_to_tree(get_ref_path), ids)),
                            <<peel_to_commit(get_ref_path)>>))
    /\ UNCHANGED assigned

\* The tip a prepared commit was derived from (0: the reference did not exist).
base_of(prepared) == IF Len(prepared.parents) = 0 THEN 0 ELSE prepared.parents[1]

\* repo.commit of a prepared call, and the map_err! on its result
WriteCommit(w) ==
    /\ IsSome(pending[w])
    /\ LET prepared == Unwrap(pending[w])
           call(status) ==
               [Call("commit", status, None, None, <<prepared.op>>, None, None, w)
                   EXCEPT !.base = base_of(prepared)]
       IN  IF commit_accepted(prepared.path, prepared.parents)
           THEN /\ commits' = Append(commits, new_commit(prepared.message, prepared.tree,
                                                         prepared.parents))
                /\ refs' = [refs EXCEPT ![prepared.path] = Len(commits) + 1]
                /\ last' = call("ok")
           ELSE /\ last' = call("err")
                /\ UNCHANGED <<commits, refs>>
    /\ pending' = [pending EXCEPT ![w] = None]
    /\ UNCHANGED <<config, assigned, held>>

----------------------------------------------------------------------------
(* The tasks and ids the calls are made with *)

TaskA ==
    [id       |-> None,
     props    |-> [name |-> "A", description |-> "", status |-> "OPEN", created |-> "100"],
     comments |-> None,
     labels   |-> None]

TaskB ==
    [id       |-> None,
     props    |-> [name |-> "B", description |-> "text", status |-> "IN_PROGRESS",
                   created |-> "200", author |-> "dev"],
     comments |-> Some(<<[id |-> Some(<<"1">>), props |-> [author |-> "dev", created |-> "201"],
                          text |-> "hi"]>>),
     labels   |-> Some(<<[name |-> "bug", color |-> None, description |-> Some("a bug")]>>)]

Payloads == {TaskA, TaskB}

\* A task with two comments.
TaskC ==
    [id       |-> None,
     props    |-> [name |-> "C", description |-> "", status |-> "OPEN", created |-> "300"],
     comments |-> Some(<<[id |-> Some(<<"1">>), props |-> [created |-> "301"],
                          text |-> "first"],
                         [id |-> Some(<<"2">>), props |-> [author |-> "dev", created |-> "302"],
                          text |-> "second"]>>),
     labels   |-> None]

\* Ids a caller passes: canonical decimals, and a decimal with a leading zero.
One == <<"1">>

Two == <<"2">>

ZeroOne == <<"0", "1">>

CreateIds == {ZeroOne}

UpdateIds == {One, Two}

OptionOf(S) == {None} \cup {Some(x) : x \in S}

SeqsUpTo(S, n) == UNION {[1..k -> S] : k \in 0..n}

DeleteLists == SeqsUpTo({One, Two}, 2) \cup {<<ZeroOne>>}

WithId(task, id) == [task EXCEPT !.id = id]

----------------------------------------------------------------------------
(* The store under every call, on short histories *)

\* The values task.ref is set to through the config command.
ConfigValues ==
    SeqsUpTo({"a", "/"}, MaxValueLen) \cup {<<"a", "/", "a">>, <<"a", "/", "a", "/", "a">>}

\* Every path a reference can be looked up or written under.
AllRefPaths == RefPaths \cup {path_string(task_ref_value(v)) : v \in ConfigValues}

Init ==
    /\ commits = <<>>
    /\ refs = [p \in AllRefPaths |-> 0]
    /\ config = None
    /\ last = Call("none", "ok", None, None, <<>>, None, None, 0)
    /\ assigned = <<>>
    /\ held = None
    /\ pending = [w \in Writers |-> None]

\* The histories explored are those of fewer than n commits.
Within(n) == Len(commits) < n

Next ==
    \/ \E p \in Payloads, id \in OptionOf(CreateIds) :
          Within(MaxCommits) /\ CreateTask(WithId(p, id))
    \/ \E id \in OptionOf(UpdateIds), a \in OptionOf({"UpdateStatus"}) :
          Within(MaxCommits) /\ UpdateTaskV2(WithId(TaskB, id), a)
    \/ \E ids \in DeleteLists : Within(MaxCommits) /\ DeleteTasks(ids)
    \/ Within(MaxCommits) /\ ClearTasks

Spec == Init /\ [][Next]_vars

----------------------------------------------------------------------------
(* A store that only sees create_task calls without an id *)

NextCreate ==
    \E p \in Payloads : Within(MaxCreates) /\ CreateTask(WithId(p, None))

SpecCreate == Init /\ [][NextCreate]_vars

----------------------------------------------------------------------------
(* Ids given by the caller, up to the ends of the i64 range, among ids assigned *)

\* i64::MAX + 1 (not an i64), i64::MAX, and small ids written with a sign or zeros.
SuppliedIds == {I64MaxDigits, I64MinDigits, <<"+", "2">>, <<"0", "3">>}

NextNextId ==
    \/ Within(MaxNextId) /\ \E p \in Payloads : CreateTask(WithId(p, None))
    \/ Within(MaxNextId) /\ \E id \in SuppliedIds : CreateTask(WithId(TaskA, Some(id)))
    \/ Within(MaxNextId) /\ DeleteTasks(<<One>>)

SpecNextId == Init /\ [][NextNextId]_vars

----------------------------------------------------------------------------
(* One id given out, deleted or cleared, and given out again *)

NextReuse ==
    \/ Within(MaxReuse) /\ CreateTask(WithId(TaskA, None))
    \/ Within(MaxReuse) /\ UpdateTaskV2(WithId(TaskB, Some(One)), Some("AddComment"))
    \/ Within(MaxReuse) /\ DeleteTasks(<<One>>)
    \/ Within(MaxReuse) /\ ClearTasks

SpecReuse == Init /\ [][NextReuse]_vars

----------------------------------------------------------------------------
(* Long histories of one task: chains longer than the limit of the history walk *)

NextHist ==
    \/ Within(MaxChain) /\ CreateTask(WithId(TaskA, None))
    \/ Within(MaxChain) /\ UpdateTaskV2(WithId(TaskB, Some(One)), Some("AddComment"))

SpecHist == Init /\ [][NextHist]_vars

----------------------------------------------------------------------------
(* Every variant of TaskAction, on short histories of one task *)

NextAct ==
    \/ Within(MaxActs) /\ CreateTask(WithId(TaskA, None))
    \/ \E a \in OptionOf(TaskActions) :
          Within(MaxActs) /\ UpdateTaskV2(WithId(TaskB, Some(One)), a)
    \/ Within(MaxActs) /\ DeleteTasks(<<One>>)
    \/ Within(MaxActs) /\ ClearTasks

SpecAct == Init /\ [][NextAct]_vars

\* The six mutators of the store together, on the ids "1" and "2".
TaskIdMoves == {<<One, Two>>, <<Two, One>>, <<One, One>>}

CommentIdMoves == {<<One, Two>>, <<Two, One>>}

NextAll ==
    \/ Within(MaxAll) /\ \E p \in Payloads : CreateTask(p)
    \/ Within(MaxAll) /\ \E id \in UpdateIds : UpdateTaskV2(WithId(TaskB, Some(id)), None)
    \/ Within(MaxAll) /\ \E m \in TaskIdMoves : UpdateTaskId(m[1], m[2])
    \/ Within(MaxAll) /\ \E t \in UpdateIds, m \in CommentIdMoves :
                             UpdateCommentId(t, m[1], m[2])
    \/ Within(MaxAll) /\ \E ids \in {<<One>>, <<One, Two>>} : DeleteTasks(ids)
    \/ Within(MaxAll) /\ ClearTasks

SpecAll == Init /\ [][NextAll]_vars

\* create_task and delete_tasks with set_ref_path between them.
NextRef ==
    \/ Within(MaxRef) /\ \E p \in Payloads : CreateTask(p)
    \/ Within(MaxRef) /\ DeleteTasks(<<One>>)
    \/ \E p \in RefPaths, move_ref \in BOOLEAN : SetRefPath(p, move_ref)

SpecRef == Init /\ [][NextRef]_vars

\* A Task built and edited in memory.
PropertyMaps == {[name |-> "A", status |-> "OPEN"],
                 [name |-> "A", status |-> "OPEN", created |-> "7"],
                 [name |-> "A"],
                 [name |-> "", status |-> "OPEN"],
                 [status |-> "OPEN", created |-> "7"]}

Authors == OptionOf({"dev"})

NextProps ==
    \/ \E name \in {"A", ""}, status \in {"OPEN", ""}, author \in Authors :
           TaskNew(name, "", status, author)
    \/ \E props \in PropertyMaps : TaskFromProperties(One, props)
    \/ \E prop \in {"name", "status", "priority"}, value \in {"", "high"} :
           SetProperty(prop, value)
    \/ \E prop \in {"name", "status", "created", "priority"} : DeleteProperty(prop)

SpecProps == Init /\ [][NextProps]_vars

NextComments ==
    \/ \E author \in Authors : TaskNew("A", "", "OPEN", author)
    \/ \E author \in Authors : AddComment(None, <<>>, "hi", author)
    \/ \E id \in {One, Two, <<"3">>} : DeleteComment(id)

SpecComments == Init /\ [][NextComments]_vars

LabelNames == {"bug", "feature"}

NextLabels ==
    \/ \E author \in Authors : TaskNew("A", "", "OPEN", author)
    \/ \E name \in LabelNames, color \in OptionOf({"red"}) : AddLabel(name, None, color)
    \/ \E name \in LabelNames : DeleteLabel(name)

SpecLabels == Init /\ [][NextLabels]_vars

\* Comments and labels of one task, several of them under one id or name.
NextDeletes ==
    \/ TaskNew("A", "", "OPEN", None)
    \/ \E id \in {One, Two} : AddComment(Some(id), <<>>, "hi", None)
    \/ \E name \in LabelNames : AddLabel(name, None, None)
    \/ \E id \in {One, Two} : DeleteComment(id)
    \/ \E name \in LabelNames : DeleteLabel(name)

SpecDeletes == Init /\ [][NextDeletes]_vars

\* The tag of a TaskAction variant that a later release of the program has
\* and this one does not.
LaterAction == "ArchiveTask"

\* The store shared with a later release: its update_task_v2 writes the tag of
\* its own variant into the action entry.
NextLater ==
    \/ Within(MaxLater) /\ \E p \in Payloads : CreateTask(p)
    \/ Within(MaxLater) /\ \E action \in OptionOf({"AddComment"}) :
                               UpdateTaskV2(WithId(TaskB, Some(One)), action)
    \/ Within(MaxLater) /\ UpdateTaskV2(WithId(TaskA, Some(One)), Some(LaterAction))

SpecLater == Init /\ [][NextLater]_vars

\* The connector registry asked for the adapters of a list of remotes.
TypeFilters == OptionOf({"github", "gitlab", "jira", "redmine", "bitbucket"})

NextConnectors ==
    \E remotes \in SeqsUpTo(RemoteUrls, MaxRemotes), connector_type \in TypeFilters :
        GetMatchingRemoteConnectors(remotes, connector_type)

SpecConnectors == Init /\ [][NextConnectors]_vars

\* task.ref set through the config command, on a store with and without
\* tasks; the reference is moved along, so that one reference exists at a time.
NextConfig ==
    \/ Within(MaxConfigCommits) /\ CreateTask(TaskA)
    \/ \E value \in ConfigValues : TaskConfigSet(value, TRUE)

SpecConfig == Init /\ [][NextConfig]_vars

\* Comment ids of one stored task rewritten, between updates of the task.
CommentIds == {One, Two, <<"3">>}

NextCommentIds ==
    \/ Within(MaxCommentMoves) /\ CreateTask(TaskC)
    \/ Within(MaxCommentMoves) /\ \E action \in OptionOf({"AddComment"}) :
                                      UpdateTaskV2(WithId(TaskC, Some(One)), action)
    \/ Within(MaxCommentMoves) /\ \E id \in CommentIds : \E new_id \in CommentIds \ {id} :
                                      UpdateCommentId(One, id, new_id)

SpecCommentIds == Init /\ [][NextCommentIds]_vars

\* Two processes on one store, their reads and commits interleaved.
NextRace ==
    \/ Within(MaxRace) /\ CreateTask(TaskA)
    \/ \E w \in Writers : ReadForCreate(w, WithId(TaskB, Some(Two)))
    \/ \E w \in Writers : ReadForUpdate(w, WithId(TaskB, Some(One)), Some("AddComment"))
    \/ \E w \in Writers : ReadForDelete(w, <<One>>)
    \/ \E w \in Writers : Within(MaxRace) /\ WriteCommit(w)

SpecRace == Init /\ [][NextRace]_vars

\* Two processes that create tasks without ids, their reads and commits interleaved.
NextRaceCreate ==
    \/ \E w \in Writers, p \in Payloads :
          Within(MaxRaceCreate) /\ ReadForCreate(w, WithId(p, None))
    \/ \E w \in Writers : Within(MaxRaceCreate) /\ WriteCommit(w)

SpecRaceCreate == Init /\ [][NextRaceCreate]_vars

\* Tasks looked up between creations and deletions.
NextFind ==
    \/ Within(MaxFind) /\ \E p \in Payloads : CreateTask(p)
    \/ Within(MaxFind) /\ \E ids \in {<<One>>, <<Two>>} : DeleteTasks(ids)
    \/ \E id \in {One, Two, ZeroOne} : FindTask(id)

SpecFind == Init /\ [][NextFind]_vars

----------------------------------------------------------------------------
(* What the claims speak of *)

Present == reference_exists(get_ref_path)

Tip == refs[get_ref_path]

TipTree == commits[Tip].tree

\* The tree of the tip when the last call began (the empty tree if there was none).
PreTree == IF last.preTip = 0 THEN EmptyTree ELSE commits[last.preTip].tree

Succeeded(op) == last.op = op /\ last.status = "ok"

\* An entry that holds a task: its blob deserialises as a Task.
IsTaskEntry(tree, name) == name \in DOMAIN tree /\ IsSome(task_from_json(tree[name]))

TaskEntries(tree) == {n \in DOMAIN tree : IsTaskEntry(tree, n)}

Range(s) == {s[i] : i \in 1..Len(s)}

\* The k-th first-parent ancestor of a commit (k = 0: the commit itself).
RECURSIVE Ancestor(_, _)
Ancestor(commit, k) ==
    IF k = 0 THEN commit ELSE Ancestor(commits[commit].parents[1], k - 1)

\* The number of commits on the first-parent chain that ends in commit.
RECURSIVE ChainLength(_)
ChainLength(commit) ==
    IF Len(commits[commit].parents) = 0 THEN 1
    ELSE 1 + ChainLength(commits[commit].parents[1])

Min(a, b) == IF a < b THEN a ELSE b

TipMessage == commits[Tip].message

Absent(result) == result = [status |-> "ok", task |-> None]

\* The arrangements of the positions 1..n
Perms(n) == {f \in [1..n -> 1..n] : \A i, j \in 1..n : i # j => f[i] # f[j]}

NonDecreasing(ns) == \A i, j \in 1..Len(ns) : i < j => ns[i] <= ns[j]

CommaSpace == <<",", " ">>

\* Ids whose history the claims read
HistIds == {One, Two, <<"3">>, ZeroOne}

----------------------------------------------------------------------------
(* C1..C10 *)

\* C1: right after a successful create_task(T), find_task with the id of the returned
\* task yields that task, which is T in props, comments and labels and has T's id
\* when T came with one.
C1_CreateThenFind ==
    Succeeded("create_task") =>
        LET T == Unwrap(last.task)
            R == Unwrap(last.retTask)
            F == find_task(Unwrap(R.id))
        IN  /\ F.status = "ok"
            /\ IsSome(F.task)
            /\ Unwrap(F.task) = R
            /\ R.props = T.props
            /\ R.comments = T.comments
            /\ R.labels = T.labels
            /\ IsSome(T.id) => R.id = T.id

C1_Witness ==
    /\ Succeeded("create_task")
    /\ last.preTip # 0
    /\ ~IsSome(Unwrap(last.task).id)
    /\ IsSome(Unwrap(last.task).comments)
    /\ IsSome(find_task(Unwrap(last.retId)).task)

\* C2: from an absent reference, create_task calls without an id are assigned "1"
\* first and then canonical decimal ids, each numerically greater than all before it.
C2_FreshIdsIncrease ==
    /\ Len(assigned) > 0 => assigned[1] = <<"1">>
    /\ \A i \in 1..Len(assigned) :
          /\ IsSome(parse_u64(assigned[i]))
          /\ to_string(Unwrap(parse_u64(assigned[i]))) = assigned[i]
    /\ \A i, j \in 1..Len(assigned) :
          i < j => Unwrap(parse_u64(assigned[i])) < Unwrap(parse_u64(assigned[j]))

C2_Witness ==
    /\ Len(assigned) = 4
    /\ Succeeded("create_task")
    /\ last.retId = Some(<<"4">>)

\* C3: after a successful update_task_v2(T, Some(action)) the newest entry of
\* get_task_history(T.id) is Some(action), for every variant of TaskAction.
C3_UpdateActionIsNewest ==
    (Succeeded("update_task_v2") /\ IsSome(last.action)) =>
        LET h == get_task_history(Unwrap(last.retId))
        IN  /\ h.status = "ok"
            /\ Len(h.actions) > 0
            /\ h.actions[Len(h.actions)] = last.action

C3_Witness ==
    /\ Succeeded("update_task_v2")
    /\ last.action = Some("DeleteLabel")
    /\ Len(commits) = 3
    /\ get_task_history(One).actions = <<Some("TaskCreate"), Some("AddLabel"), Some("DeleteLabel")>>

\* C4: after update_task(T) without an action on a stored task T, the action-T entry
\* of the tip tree is the blob it was in the prior tip, the newest history entry is
\* the one that was newest before, and the history reports nothing it did not report
\* before.
C4_UpdateWithoutActionKeepsAction ==
    (/\ Succeeded("update_task_v2")
     /\ ~IsSome(last.action)
     /\ IsTaskEntry(PreTree, Unwrap(last.retId))) =>
        LET id     == Unwrap(last.retId)
            before == task_history_at(id, last.preTip)
            after  == get_task_history(id)
        IN  /\ get_name(TipTree, action_name(id)) = get_name(PreTree, action_name(id))
            /\ before.status = "ok"
            /\ after.status = "ok"
            /\ after.actions[Len(after.actions)] = before.actions[Len(before.actions)]
            /\ Range(after.actions) \subseteq Range(before.actions)

C4_Witness ==
    /\ Succeeded("update_task_v2")
    /\ ~IsSome(last.action)
    /\ IsTaskEntry(PreTree, Unwrap(last.retId))
    /\ get_name(PreTree, action_name(Unwrap(last.retId))) = Some(action_to_json("UpdateStatus"))
    /\ get_task_history(Unwrap(last.retId)).actions =
           <<Some("TaskCreate"), Some("UpdateStatus"), Some("UpdateStatus")>>

\* C5: clear_tasks returns the number of tasks the store held, and afterwards
\* find_task finds none of them.
C5_ClearReturnsTaskCount ==
    Succeeded("clear_tasks") =>
        /\ last.retCount = Cardinality(TaskEntries(PreTree))
        /\ \A id \in TaskEntries(PreTree) : Absent(find_task(id))

\* C6: after a successful delete_tasks(ids), find_task finds none of ids, and the
\* action entry each of them had is still in the tip tree, unchanged.
C6_DeleteRemovesTaskKeepsAction ==
    Succeeded("delete_tasks") =>
        \A i \in 1..Len(last.ids) :
            LET id == last.ids[i]
            IN  /\ Absent(find_task(id))
                /\ action_name(id) \in DOMAIN PreTree =>
                       /\ action_name(id) \in DOMAIN TipTree
                       /\ TipTree[action_name(id)] = PreTree[action_name(id)]

C6_Witness ==
    /\ Succeeded("delete_tasks")
    /\ Len(last.ids) = 2
    /\ \A i \in 1..2 : /\ IsTaskEntry(PreTree, last.ids[i])
                       /\ action_name(last.ids[i]) \in DOMAIN TipTree
                       /\ Absent(find_task(last.ids[i]))

\* C7, as claimed: every commit carries the message of its operation, and the message
\* of delete_tasks(ids) lists the ids as they were passed, in ascending numerical order.
C7_DeleteMessageListsIdsAsPassed ==
    /\ Succeeded("create_task") => TipMessage = <<"Create task ">> \o Unwrap(last.retId)
    /\ Succeeded("update_task_v2") => TipMessage = <<"Update task ">> \o Unwrap(last.retId)
    /\ Succeeded("clear_tasks") => TipMessage = <<"Clear tasks">>
    /\ Succeeded("delete_tasks") =>
          \E f \in Perms(Len(last.ids)) :
              LET listed == [i \in 1..Len(last.ids) |-> last.ids[f[i]]]
              IN  /\ NonDecreasing([i \in 1..Len(listed) |-> Unwrap(parse_u64(listed[i]))])
                  /\ TipMessage = <<"Delete task ">> \o join(listed, CommaSpace)

\* C7, amended: as above, but the message of delete_tasks(ids) lists the numbers the
\* ids parse to, in ascending order, each printed in canonical decimal (id "01"
\* is listed as "1").
C7_MessagesAreExact ==
    /\ Succeeded("create_task") => TipMessage = <<"Create task ">> \o Unwrap(last.retId)
    /\ Succeeded("update_task_v2") => TipMessage = <<"Update task ">> \o Unwrap(last.retId)
    /\ Succeeded("clear_tasks") => TipMessage = <<"Clear tasks">>
    /\ Succeeded("delete_tasks") =>
          \E f \in Perms(Len(last.ids)) :
              LET nums == [i \in 1..Len(last.ids) |-> Unwrap(parse_u64(last.ids[f[i]]))]
              IN  /\ NonDecreasing(nums)
                  /\ TipMessage =
                         <<"Delete task ">> \o
                             join([i \in 1..Len(nums) |-> to_string(nums[i])], CommaSpace)

C7_Witness ==
    /\ Succeeded("delete_tasks")
    /\ last.ids = <<Two, One>>
    /\ TipMessage = <<"Delete task ", "1", ",", " ", "2">>

\* C8: get_task_history returns at most 10 entries, oldest first: the k-th entry from
\* the end is the one read from the (k-1)-th first-parent ancestor of the tip.
C8_HistoryBoundedOldestFirst ==
    Present =>
        \A id \in HistIds :
            LET h == get_task_history(id)
                n == Len(h.actions)
            IN  /\ h.status = "ok"
                /\ n >= 1
                /\ n <= 10
                /\ \A k \in 1..n :
                       Some(h.actions[k]) = history_entry(id, Ancestor(Tip, n - k))

C8_Witness ==
    /\ Present
    /\ ChainLength(Tip) = 12
    /\ Len(get_task_history(Two).actions) = 10
    /\ get_task_history(Two).actions[1] = None
    /\ get_task_history(Two).actions[10] = Some("TaskCreate")
    /\ get_task_history(One).actions[9] = Some("AddComment")

\* C9, as claimed: on a chain of N commits the history has min(N, 11) entries.
C9_HistoryReadsTipAndTenAncestors ==
    Present =>
        \A id \in HistIds :
            Len(get_task_history(id).actions) = Min(ChainLength(Tip), 11)

\* C9, amended: get_task_history reads the tip and up to 9 of its first-parent
\* ancestors, one entry per commit read: on a chain of N commits it has min(N, 10)
\* entries.
C9_HistoryReadsTipAndNineAncestors ==
    Present =>
        \A id \in HistIds :
            /\ get_task_history(id).status = "ok"
            /\ Len(get_task_history(id).actions) = Min(ChainLength(Tip), 10)

C9_Witness ==
    /\ Present
    /\ ChainLength(Tip) = 11
    /\ Len(get_task_history(One).actions) = 10

\* C10: while the task reference is absent, update_task, delete_tasks and clear_tasks
\* return an error and write no commit and no reference; only create_task makes the
\* reference present, with a commit that has no parents.
C10_AbsentOnlyCreateMakesPresent ==
    [][~Present =>
          /\ last'.op \in {"update_task_v2", "delete_tasks", "clear_tasks"} =>
                 /\ last'.status = "err"
                 /\ UNCHANGED <<commits, refs>>
          /\ Present' =>
                 /\ last'.op = "create_task"
                 /\ last'.status = "ok"
                 /\ commits'[Tip'].parents = <<>>]_vars

C10_Witness ==
    /\ ~Present
    /\ Len(commits) = 0
    /\ last.op = "delete_tasks"
    /\ last.status = "err"
    /\ last.preTip = 0


----------------------------------------------------------------------------
(* C11..C20 *)

\* The operations that write to the task reference.
MutatorOps == {"create_task", "update_task_v2", "update_task_id", "update_comment_id",
               "delete_tasks", "clear_tasks"}

\* The task stored under id in the tree the last call started from.
PreTask(id) == task_from_json(PreTree[id])

\* C11: once the task reference is Present it stays Present under every step of
\* create_task, update_task, update_task_id, update_comment_id, delete_tasks
\* and clear_tasks, also when the step deletes or clears every task.
C11_PresentStaysPresent == [][Present => Present']_vars

C11_Witness ==
    /\ last.op \in {"clear_tasks", "delete_tasks"}
    /\ last.status = "ok"
    /\ last.preTip # 0
    /\ TaskEntries(PreTree) # {}
    /\ TaskEntries(TipTree) = {}
    /\ Present

\* C12 as stated: on a Present reference every successful mutator call has
\* advanced the tip to a new commit.
C12_EverySuccessAdvancesTip ==
    (last.op \in MutatorOps /\ last.status = "ok" /\ last.preTip # 0)
        => (Tip > last.preTip /\ Tip = Len(commits))

\* C12 amended: on a Present reference every successful mutator call has
\* advanced the tip to a new commit, except update_comment_id on a task that
\* has no comments list, which succeeds and leaves the tip where it was.
C12_SuccessAdvancesTipUnlessNoComments ==
    (last.op \in MutatorOps /\ last.status = "ok" /\ last.preTip # 0)
        => IF /\ last.op = "update_comment_id"
              /\ ~IsSome(Unwrap(PreTask(last.ids[1])).comments)
           THEN Tip = last.preTip
           ELSE Tip > last.preTip /\ Tip = Len(commits)

C12_Witness ==
    /\ Succeeded("update_comment_id")
    /\ last.preTip # 0
    /\ IsSome(Unwrap(PreTask(last.ids[1])).comments)
    /\ \A i \in 1..Len(Unwrap(Unwrap(PreTask(last.ids[1])).comments)) :
           Unwrap(Unwrap(PreTask(last.ids[1])).comments)[i].id # Some(last.ids[2])
    /\ Tip > last.preTip

\* The tip tree agrees with the tree the last call started from on every
\* entry name outside names.
SameOutside(names) ==
    \A n \in (DOMAIN PreTree \cup DOMAIN TipTree) \ names :
        /\ n \in DOMAIN PreTree
        /\ n \in DOMAIN TipTree
        /\ TipTree[n] = PreTree[n]

\* How the tip tree is derived from the tree the last call started from.
DerivedFromPreTree ==
    CASE last.op \in {"create_task", "update_task_v2"} ->
            SameOutside({Unwrap(last.retId), action_name(Unwrap(last.retId))})
      [] last.op = "delete_tasks" ->
            /\ DOMAIN TipTree = DOMAIN PreTree \ Range(last.ids)
            /\ SameOutside(Range(last.ids))
      [] last.op = "clear_tasks" -> TipTree = EmptyTree

\* C13: the history is linear: every commit has at most one parent, and a
\* commit added by create_task, update_task, delete_tasks or clear_tasks on a
\* Present reference has exactly one parent, the tip the operation started
\* from, and its tree is derived from that parent's tree.
C13_LinearHistory ==
    /\ \A i \in 1..Len(commits) :
           commits[i].parents = IF i = 1 THEN <<>> ELSE <<i - 1>>
    /\ (/\ last.op \in {"create_task", "update_task_v2", "delete_tasks", "clear_tasks"}
        /\ last.status = "ok"
        /\ last.preTip # 0)
           => /\ Tip = Len(commits)
              /\ commits[Tip].parents = <<last.preTip>>
              /\ DerivedFromPreTree

C13_Witness ==
    /\ Succeeded("create_task")
    /\ last.preTip # 0
    /\ commits[Tip].parents = <<last.preTip>>
    /\ DOMAIN PreTree # {}
    /\ DOMAIN PreTree # DOMAIN TipTree

\* An entry name that parses as a decimal integer.
IsTaskName(name) == Len(name) > 0 /\ AllDigits(name)

\* An entry name of the form action-<id>.
IsActionName(name) ==
    /\ Len(name) > Len(action_name(<<>>))
    /\ SubSeq(name, 1, Len(action_name(<<>>))) = action_name(<<>>)
    /\ IsTaskName(SubSeq(name, Len(action_name(<<>>)) + 1, Len(name)))

\* C15: the tip tree holds, for every task entry T, also the entry action-T,
\* and no entry that is neither a task entry nor an action-<id> entry.
C15_TaskEntriesHaveActionEntries ==
    Present =>
        \A n \in DOMAIN TipTree :
            /\ IsTaskName(n) => action_name(n) \in DOMAIN TipTree
            /\ IsTaskName(n) \/ IsActionName(n)


\* C14: after a successful set_ref_path(p, move_ref = true) on a Present
\* reference, get_ref_path() is p, the reference it names points at the commit
\* that was the tip before the call, every task found before is still found,
\* and the reference at the previously configured path no longer exists.
C14_MoveKeepsTipDropsOldRef ==
    (Succeeded("set_ref_path") /\ last.move /\ last.preTip # 0)
        => /\ get_ref_path = last.path
           /\ reference_exists(get_ref_path)
           /\ peel_to_commit(get_ref_path) = last.preTip
           /\ \A id \in DOMAIN PreTree : get_name(TipTree, id) = Some(PreTree[id])
           /\ (last.prePath # last.path => ~reference_exists(last.prePath))

\* C16: on a Present reference list_tasks returns exactly one Task per task
\* entry of the tip tree (names that parse as a decimal integer), in tree
\* iteration order, and nothing for action-* entries; after k create_task
\* calls on a fresh store the list has length k.
C16_ListReturnsTaskEntries ==
    Present =>
        LET names == tree_walk({n \in DOMAIN TipTree : IsTaskName(n)})
        IN  /\ list_tasks.status = "ok"
            /\ list_tasks.tasks =
                   [i \in 1..Len(names) |-> Unwrap(task_from_json(TipTree[names[i]]))]
            /\ Len(list_tasks.tasks) = Len(assigned)

\* C17: a Task built by Task::new or Task::from_properties keeps, after any
\* sequence of set_property and delete_property calls, a non-empty name, a
\* non-empty status, and its created property.
C17_NameStatusCreatedKept ==
    IsSome(held) =>
        /\ hashmap_get_or_empty(Unwrap(held).props, "name") # ""
        /\ hashmap_get_or_empty(Unwrap(held).props, "status") # ""
        /\ "created" \in DOMAIN Unwrap(held).props

\* C18: after any sequence of add_comment calls without an id and
\* delete_comment calls, no two comments of the task have the same id.
C18_CommentIdsUnique ==
    IsSome(held) =>
        \A i, j \in 1..Len(comments_of(Unwrap(held))) :
            i # j => comments_of(Unwrap(held))[i].id # comments_of(Unwrap(held))[j].id

\* C19: after any sequence of add_label and delete_label calls no two labels
\* of the task have the same name, so a successful delete_label(name) leaves
\* no label with that name and get_label_by_name(name) returns absent.
C19_LabelNamesUnique ==
    IsSome(held) =>
        /\ \A i, j \in 1..Len(labels_of(Unwrap(held))) :
               i # j => labels_of(Unwrap(held))[i].name # labels_of(Unwrap(held))[j].name
        /\ Succeeded("delete_label") => get_label_by_name(Unwrap(held), last.ids[1]) = None

\* C20: an action blob whose tag names no known TaskAction variant reads as
\* UnknownUpdate: get_task_history returns a result and reports
\* Some(UnknownUpdate) for every commit that carries such a blob.
C20_UnknownTagReadsAsUnknownUpdate ==
    Present =>
        LET h == get_task_history(One)
        IN  /\ h.status = "ok"
            /\ \A k \in 1..Len(h.actions) :
                   LET entry == get_name(commits[Ancestor(Tip, Len(h.actions) - k)].tree,
                                         action_name(One))
                   IN  (IsSome(entry) /\ ~IsSome(action_from_json(Unwrap(entry))))
                           => h.actions[k] = Some("UnknownUpdate")

----------------------------------------------------------------------------
(* C21..C30 *)

\* The (remote, adapter) pairs in the order remote first, registry order within a remote.
RemoteAdapterPairs(remotes) ==
    [n \in 1..(Len(remotes) * Len(connectors)) |->
        <<((n - 1) \div Len(connectors)) + 1, ((n - 1) % Len(connectors)) + 1>>]

\* The pair is a match: the adapter passes the filter and supports the remote.
IsMatch(remotes, connector_type, pair) ==
    /\ IsSome(connector_type) => type_name(connectors[pair[2]]) = Unwrap(connector_type)
    /\ IsSome(supports_remote(connectors[pair[2]], remotes[pair[1]]))

\* C21: get_matching_remote_connectors returns exactly the tuples (adapter,
\* user, repo) of the adapters that pass the type filter (every adapter when
\* none is set) and support the remote, ordered by remote first and by
\* registry order within a remote; two adapters matching the same URL both appear.
C21_MatchingConnectors ==
    last.op = "get_matching_remote_connectors" =>
        LET remotes == last.ids
            matches == SelectSeq(RemoteAdapterPairs(remotes),
                                 LAMBDA pair : IsMatch(remotes, last.action, pair))
        IN  /\ Len(last.retTask) = Len(matches)
            /\ \A n \in 1..Len(matches) :
                   /\ last.retTask[n][1] = connectors[matches[n][2]]
                   /\ Some(<<last.retTask[n][2], last.retTask[n][3]>>) =
                          supports_remote(connectors[matches[n][2]], remotes[matches[n][1]])

C21_Witness ==
    /\ last.op = "get_matching_remote_connectors"
    /\ last.action = None
    /\ last.ids = <<"https://tracker.example.org/team/proj", "https://github.com/alice/app">>
    /\ Len(last.retTask) = 3
    /\ last.retTask[1][1] = "JiraRemoteConnector"
    /\ last.retTask[2][1] = "RedmineRemoteConnector"
    /\ last.retTask[3][1] = "GithubRemoteConnector"

\* The positions of '/' in a value.
SlashPositions(value) == {i \in 1..Len(value) : value[i] = "/"}

\* C22: task_config_set("task.ref", v) hands set_ref_path "refs/heads/" + v
\* when v has no '/', "refs/" + v when v has exactly one '/' that is neither
\* its first nor its last character, and v itself otherwise; normalising the
\* value handed over again returns it unchanged.
C22_RefValueNormalised ==
    last.op = "task_config_set" =>
        LET v        == last.ids[1]
            passed   == Unwrap(last.retId)
            expected ==
                IF SlashPositions(v) = {} THEN RefsHeadsPrefix \o v
                ELSE IF \E i \in 2..(Len(v) - 1) : SlashPositions(v) = {i}
                     THEN RefsPrefix \o v
                     ELSE v
        IN  /\ passed = expected
            /\ last.path = path_string(expected)
            /\ last.status = "ok" => get_ref_path = path_string(expected)
            /\ task_ref_value(passed) = passed

C22_Witness ==
    /\ last.op = "task_config_set"
    /\ last.status = "ok"
    /\ last.ids = <<<<"a", "/", "a">>>>
    /\ get_ref_path = "refs/a/a"
    /\ reference_exists("refs/a/a")

\* C23: after a successful update_task_id(old, new) on a store that holds task
\* old, find_task(new) returns the task that was stored under old with id new,
\* find_task(old) returns absent, exactly two commits were added ("Create task
\* new", then "Delete task old"), and the action-new entry is TaskCreate.
C23_UpdateTaskIdMovesTask ==
    (Succeeded("update_task_id") /\ IsSome(get_name(PreTree, last.ids[1])))
        => LET old == last.ids[1]
               new == last.ids[2]
           IN  /\ find_task(new).status = "ok"
               /\ find_task(new).task = Some([Unwrap(PreTask(old)) EXCEPT !.id = Some(new)])
               /\ old # new => find_task(old) = [status |-> "ok", task |-> None]
               /\ Tip = last.preTip + 2
               /\ Len(commits) = Tip
               /\ commits[Tip - 1].message = <<"Create task ">> \o new
               /\ commits[Tip].message = <<"Delete task ">> \o old
               /\ get_name(TipTree, action_name(new)) = Some(action_to_json("TaskCreate"))

\* C24: after update_comment_id(task_id, old, new) on a task that has comments,
\* the stored task has the same number of comments in the same order, every
\* comment whose id was old has id new with text and props unchanged, every
\* other comment is unchanged, and the action-task_id entry is unchanged.
C24_CommentIdRewritten ==
    (Succeeded("update_comment_id") /\ IsSome(Unwrap(PreTask(last.ids[1])).comments))
        => LET before == Unwrap(PreTask(last.ids[1]))
               found  == find_task(last.ids[1])
               after  == Unwrap(found.task)
               was    == Unwrap(before.comments)
               now    == Unwrap(after.comments)
           IN  /\ found.status = "ok"
               /\ IsSome(found.task)
               /\ IsSome(after.comments)
               /\ Len(now) = Len(was)
               /\ \A i \in 1..Len(was) :
                      /\ now[i].text = was[i].text
                      /\ now[i].props = was[i].props
                      /\ now[i].id = IF was[i].id = Some(last.ids[2])
                                     THEN Some(last.ids[3]) ELSE was[i].id
               /\ after.id = before.id
               /\ after.props = before.props
               /\ after.labels = before.labels
               /\ get_name(TipTree, action_name(last.ids[1]))
                      = get_name(PreTree, action_name(last.ids[1]))

C24_Witness ==
    /\ Succeeded("update_comment_id")
    /\ IsSome(Unwrap(PreTask(last.ids[1])).comments)
    /\ Len(Unwrap(Unwrap(PreTask(last.ids[1])).comments)) = 2
    /\ \A i \in 1..2 : Unwrap(Unwrap(PreTask(last.ids[1])).comments)[i].id = Some(last.ids[2])
    /\ \A i \in 1..2 : Unwrap(Unwrap(find_task(last.ids[1]).task).comments)[i].id
                           = Some(last.ids[3])
    /\ get_name(TipTree, action_name(last.ids[1])) = Some(action_to_json("AddComment"))

\* Writer w writes its prepared commit in this step, and the reference has
\* moved since w read it.
StaleCommit(w) ==
    /\ IsSome(pending[w])
    /\ pending'[w] = None
    /\ reference_exists(Unwrap(pending[w]).path)
    /\ base_of(Unwrap(pending[w])) # peel_to_commit(Unwrap(pending[w]).path)

\* C25 as stated: when two mutators read the same tip and the first commits
\* before the second, the second's commit is not rejected: it succeeds, its
\* tree is the one derived from the tip it read, and the reference ends at it.
C25_StaleCommitSucceeds ==
    [][\A w \in Writers :
          StaleCommit(w) =>
              /\ last'.status = "ok"
              /\ Len(commits') = Len(commits) + 1
              /\ refs'[Unwrap(pending[w]).path] = Len(commits')
              /\ commits'[Len(commits')].tree = Unwrap(pending[w]).tree]_vars

\* C25 amended: when two mutators read the same tip and the first commits
\* before the second, the second's commit is rejected with an error and not
\* retried: no commit is written and the reference stays at the first
\* writer's commit, whose change stays in the tip tree.
C25_StaleCommitRejected ==
    [][\A w \in Writers :
          StaleCommit(w) =>
              /\ last'.status = "err"
              /\ commits' = commits
              /\ refs' = refs
              /\ \A v \in Writers \ {w} : pending'[v] = pending[v]]_vars

C25_Witness ==
    /\ last.op = "commit"
    /\ last.status = "err"
    /\ last.base # 0
    /\ last.preTip > last.base
    /\ commits[last.preTip].parents = <<last.base>>
    /\ Tip = last.preTip
    /\ pending = [w \in Writers |-> None]

\* C26: Task::new returns an error exactly when name or status is empty;
\* Task::from_properties returns an error exactly when props lacks a non-empty
\* name or a non-empty status, and on success keeps a supplied created value
\* and fills created in only when it is missing.
C26_ConstructorsRejectEmpty ==
    /\ last.op = "new" =>
           /\ last.status = "err" <=> (last.ids[1] = "" \/ last.ids[2] = "")
           /\ last.status = "ok" =>
                  /\ IsSome(held)
                  /\ Unwrap(held).props.name = last.ids[1]
                  /\ Unwrap(held).props.status = last.ids[2]
    /\ last.op = "from_properties" =>
           LET props    == last.ids[2]
               nonempty(key) == key \in DOMAIN props /\ props[key] # ""
           IN  /\ last.status = "err" <=> ~(nonempty("name") /\ nonempty("status"))
               /\ last.status = "ok" =>
                      /\ IsSome(held)
                      /\ Unwrap(held).id = Some(last.ids[1])
                      /\ \A key \in DOMAIN props : Unwrap(held).props[key] = props[key]
                      /\ DOMAIN Unwrap(held).props = DOMAIN props \cup {"created"}
                      /\ "created" \notin DOMAIN props =>
                             Unwrap(held).props.created = ToString(get_current_timestamp)

C26_Witness ==
    /\ last.op = "from_properties"
    /\ last.status = "ok"
    /\ "created" \in DOMAIN last.ids[2]
    /\ Unwrap(held).props.created = "7"

\* C27: find_task(id) returns success with an absent task, never an error,
\* when the task reference is Absent and when it is Present but its tip tree
\* has no entry named id; it does not modify the reference.
C27_FindTaskAbsent ==
    [][last'.op = "find_task" =>
          /\ commits' = commits
          /\ refs' = refs
          /\ config' = config
          /\ (~Present \/ last'.ids[1] \notin DOMAIN TipTree) =>
                 /\ last'.status = "ok"
                 /\ last'.retTask = None]_vars

C27_Witness ==
    /\ last.op = "find_task"
    /\ last.status = "ok"
    /\ last.retTask = None
    /\ Present
    /\ TaskEntries(TipTree) # {}
    /\ last.ids[1] \notin DOMAIN TipTree
    /\ action_name(last.ids[1]) \in DOMAIN TipTree

\* C28: get_ref_path returns "refs/tasks/tasks" until task.ref is set, and
\* afterwards the path given to the last successful set_ref_path; on an Absent
\* task reference set_ref_path, with either value of move_ref, changes the
\* config value only and creates or deletes no reference.
C28_RefPathFollowsConfig ==
    /\ get_ref_path = "refs/tasks/tasks"
    /\ [][/\ (last'.op = "set_ref_path" /\ last'.status = "ok")
                 => get_ref_path' = last'.path
          /\ last'.op # "set_ref_path" => get_ref_path' = get_ref_path
          /\ (last'.op = "set_ref_path" /\ ~Present)
                 => /\ refs' = refs
                    /\ commits' = commits
                    /\ config' = Some(last'.path)]_vars

C28_Witness ==
    /\ Succeeded("set_ref_path")
    /\ last.preTip = 0
    /\ last.prePath = "refs/tasks/tasks"
    /\ get_ref_path = "refs/heads/test-git-task"
    /\ \A p \in DOMAIN refs : refs[p] = 0

\* The order of two i64 values kept as sign and magnitude.
signed_less(a, b) ==
    IF a.neg # b.neg THEN a.neg
    ELSE IF a.neg THEN magnitude_less(b.mag, a.mag)
    ELSE magnitude_less(a.mag, b.mag)

\* The magnitude minus one, for a magnitude of at least one.
RECURSIVE magnitude_dec(_)
magnitude_dec(a) ==
    IF a[Len(a)] = "0"
    THEN strip_zeros(magnitude_dec(SubSeq(a, 1, Len(a) - 1)) \o <<"9">>)
    ELSE strip_zeros(SubSeq(a, 1, Len(a) - 1) \o <<DigitChar(DigitVal(a[Len(a)]) - 1)>>)

\* The decimal form of n + 1, in the integers.
successor_string(n) ==
    IF ~n.neg THEN magnitude_inc(n.mag)
    ELSE IF n.mag = <<"1">> THEN <<"0">>
    ELSE <<"-">> \o magnitude_dec(n.mag)

\* 1 plus the maximum entry name of the tree that parses as an i64; "1" without one.
one_plus_maximum(tree) ==
    LET parsed == {parse_i64(n)[1] : n \in {m \in DOMAIN tree : IsSome(parse_i64(m))}}
    IN  IF parsed = {} THEN <<"1">>
        ELSE successor_string(CHOOSE x \in parsed : \A y \in parsed : ~signed_less(x, y))

\* C29: create_task with no id assigns 1 plus the maximum entry name of the tip
\* tree that parses as a signed 64-bit integer ("1" when the reference is Absent
\* or no entry parses); the assigned id is not the name of any entry of that tree,
\* and no stored task is overwritten.
C29_AssignedIdIsFresh ==
    (Succeeded("create_task") /\ ~IsSome(last.task[1].id))
        => /\ last.retId = Some(one_plus_maximum(PreTree))
           /\ last.retId[1] \notin DOMAIN PreTree
           /\ \A n \in TaskEntries(PreTree) : TipTree[n] = PreTree[n]

\* An id-less create_task stored its task over the task of an earlier create_task.
C29_NoStoredTaskOverwritten ==
    (Succeeded("create_task") /\ ~IsSome(last.task[1].id))
        => \A n \in TaskEntries(PreTree) : TipTree[n] = PreTree[n]

\* The entries id and action-id are the same in the trees of two commits.
SameTaskEntries(id, c, d) ==
    \A name \in {id, action_name(id)} :
        /\ (name \in DOMAIN commits[c].tree) = (name \in DOMAIN commits[d].tree)
        /\ name \in DOMAIN commits[c].tree => commits[c].tree[name] = commits[d].tree[name]

\* C30: get_task_history(id) has one entry per commit read on the first-parent
\* chain: Some(a) when the tree of the commit has an entry action-id with content a,
\* None when it has no such entry.  A commit none of whose ancestors (itself
\* included) stores task id gives None, and a commit that left id and action-id as
\* its parent had them repeats the entry of its parent.
C30_HistoryEntryPerCommit ==
    Present =>
        \A id \in HistIds :
            LET h == get_task_history(id)
                n == Len(h.actions)
            IN  /\ h.status = "ok"
                /\ n = Min(ChainLength(Tip), HistoryLimit)
                /\ \A k \in 1..n :
                       LET c    == Ancestor(Tip, n - k)
                           tree == commits[c].tree
                           name == action_name(id)
                       IN  /\ name \notin DOMAIN tree => h.actions[k] = None
                           /\ \A a \in TaskActions :
                                  (name \in DOMAIN tree /\ tree[name] = action_to_json(a))
                                      => h.actions[k] = Some(a)
                           /\ (\A j \in 0..(ChainLength(c) - 1) :
                                   id \notin DOMAIN commits[Ancestor(c, j)].tree)
                                  => h.actions[k] = None
                           /\ (k > 1 /\ SameTaskEntries(id, c, Ancestor(Tip, n - k + 1)))
                                  => h.actions[k] = h.actions[k - 1]

C30_Witness ==
    /\ Succeeded("delete_tasks")
    /\ ChainLength(Tip) = 4
    /\ Two \notin DOMAIN TipTree
    /\ get_task_history(Two).actions =
           <<None, Some("TaskCreate"), Some("TaskCreate"), Some("TaskCreate")>>
    /\ get_task_history(One).actions[1] = Some("TaskCreate")

----------------------------------------------------------------------------
(* C31..C36 *)

\* Every entry whose name is not among named is in the tip tree what it was in the
\* tree of the tip before the call, and no other entry has come or gone.
OthersIdentical(named) ==
    \A n \in ((DOMAIN PreTree) \cup (DOMAIN TipTree)) \ named :
        /\ n \in DOMAIN PreTree
        /\ n \in DOMAIN TipTree
        /\ TipTree[n] = PreTree[n]

\* C31: create_task(T) and update_task_v2(T, a) leave every entry of the tip tree
\* other than T.id and action-T.id as it was (update_task_v2 without an action
\* leaves action-T.id too), and delete_tasks(ids) leaves every entry whose name is
\* not in ids as it was.
C31_MutatorsChangeNamedEntriesOnly ==
    /\ Succeeded("create_task")
           => OthersIdentical({last.retId[1], action_name(last.retId[1])})
    /\ (Succeeded("update_task_v2") /\ IsSome(last.action))
           => OthersIdentical({last.retId[1], action_name(last.retId[1])})
    /\ (Succeeded("update_task_v2") /\ ~IsSome(last.action))
           => OthersIdentical({last.retId[1]})
    /\ Succeeded("delete_tasks") => OthersIdentical(Range(last.ids))

C31_Witness ==
    /\ Succeeded("update_task_v2")
    /\ ~IsSome(last.action)
    /\ last.retId = Some(One)
    /\ {One, action_name(One), ZeroOne, action_name(ZeroOne)} \subseteq DOMAIN PreTree
    /\ TipTree[One] # PreTree[One]

\* The tree delete_tasks starts from, when there is one.
CurrentTree == IF Present THEN TipTree ELSE EmptyTree

\* C32: delete_tasks(ids) with an id that has no entry in the tip tree returns an
\* error, adds no commit and leaves the reference where it was, and find_task still
\* finds every task of the list that is stored.
C32_DeleteAllOrNothing ==
    [][(/\ last'.op = "delete_tasks"
        /\ \E i \in 1..Len(last'.ids) : last'.ids[i] \notin DOMAIN CurrentTree)
           => /\ last'.status = "err"
              /\ commits' = commits
              /\ refs' = refs
              /\ \A id \in HistIds :
                     (id \in Range(last'.ids) /\ IsTaskEntry(CurrentTree, id))
                         => /\ find_task(id)' = find_task(id)
                            /\ IsSome(find_task(id)'.task)]_vars

C32_Witness ==
    /\ last.op = "delete_tasks"
    /\ last.status = "err"
    /\ last.ids = <<One, Two>>
    /\ Present
    /\ IsSome(find_task(One).task)
    /\ Two \notin DOMAIN TipTree

\* C33: update_task_id(old, new) where new is the id of another stored task puts
\* old's task, with id new, in the place of that task; the number of stored tasks
\* goes down by one and the tasks other than old and new are unchanged.
C33_UpdateTaskIdOverwritesStoredTask ==
    (/\ Succeeded("update_task_id")
     /\ last.ids[1] # last.ids[2]
     /\ IsTaskEntry(PreTree, last.ids[1])
     /\ IsTaskEntry(PreTree, last.ids[2]))
        => LET old == last.ids[1]
               new == last.ids[2]
           IN  /\ find_task(new).task = Some([Unwrap(PreTask(old)) EXCEPT !.id = Some(new)])
               /\ old \notin DOMAIN TipTree
               /\ Cardinality(TaskEntries(TipTree)) = Cardinality(TaskEntries(PreTree)) - 1
               /\ \A n \in TaskEntries(PreTree) \ {old, new} :
                      /\ n \in DOMAIN TipTree
                      /\ TipTree[n] = PreTree[n]

C33_Witness ==
    /\ Succeeded("update_task_id")
    /\ last.ids = <<One, Two>>
    /\ IsTaskEntry(PreTree, One)
    /\ IsTaskEntry(PreTree, Two)
    /\ PreTree[One] # PreTree[Two]
    /\ Unwrap(PreTask(One)).props # Unwrap(PreTask(Two)).props
    /\ Unwrap(find_task(Two).task).props = Unwrap(PreTask(One)).props
    /\ TaskEntries(TipTree) = {Two}

\* create_task has just assigned an id that an earlier commit among those the history
\* reads stored a task under and the tip before the call did not.
ReusedId ==
    /\ Succeeded("create_task")
    /\ ~IsSome(last.task[1].id)
    /\ last.preTip # 0
    /\ last.retId[1] \notin DOMAIN PreTree
    /\ \E j \in 1..(Min(ChainLength(Tip), HistoryLimit) - 1) :
           last.retId[1] \in DOMAIN commits[Ancestor(Tip, j)].tree

\* C34: an id whose task was deleted or cleared is assigned again by create_task, and
\* get_task_history of the task that reuses it then has, for every earlier commit read
\* that recorded an action of the deleted task, that action, before its own TaskCreate.
C34_ReusedIdInheritsHistory ==
    ReusedId =>
        LET id == last.retId[1]
            h  == get_task_history(id)
            n  == Min(ChainLength(Tip), HistoryLimit)
        IN  /\ h.status = "ok"
            /\ Len(h.actions) = n
            /\ h.actions[n] = Some("TaskCreate")
            /\ \A k \in 1..(n - 1) :
                   LET tree == commits[Ancestor(Tip, n - k)].tree
                   IN  action_name(id) \in DOMAIN tree
                           => /\ IsSome(h.actions[k])
                              /\ action_to_json(h.actions[k][1]) = tree[action_name(id)]
            /\ \E k \in 1..(n - 1) : IsSome(h.actions[k])

C34_Witness ==
    /\ ReusedId
    /\ last.retId = Some(One)
    /\ commits[last.preTip].message = <<"Delete task ", "1">>
    /\ get_task_history(One).actions =
           <<Some("TaskCreate"), Some("AddComment"), Some("AddComment"), Some("TaskCreate")>>

\* The id a prepared create_task stores its task under ("Create task <id>").
PreparedId(prepared) == Tail(prepared.message)

\* Writer v writes its prepared create_task in this step, right after the commit of
\* another create_task that was prepared on the tip v read.
SecondOfTwoCreates(v) ==
    /\ IsSome(pending[v])
    /\ pending'[v] = None
    /\ Unwrap(pending[v]).op = "create_task"
    /\ Unwrap(pending[v]).path = get_ref_path
    /\ last.op = "commit"
    /\ last.status = "ok"
    /\ last.ids = <<"create_task">>
    /\ last.retCount # v
    /\ last.base = base_of(Unwrap(pending[v]))

\* C35: two create_task calls without ids that both read the tip before either
\* commits are assigned the same id, and when both have ended one task is stored
\* under that id: the one committed first; the other call has written nothing.
C35_InterleavedCreatesShareId ==
    [][\A v \in Writers :
          SecondOfTwoCreates(v) =>
              LET id == PreparedId(Unwrap(pending[v]))
              IN  /\ commits[Tip].message = Unwrap(pending[v]).message
                  /\ id \in DOMAIN TipTree
                  /\ last'.status = "err"
                  /\ commits' = commits
                  /\ refs' = refs
                  /\ TipTree'[id] = TipTree[id]]_vars

C35_Witness ==
    /\ last.op = "commit"
    /\ last.status = "err"
    /\ last.ids = <<"create_task">>
    /\ last.base # 0
    /\ Tip = last.base + 1
    /\ commits[Tip].message = <<"Create task ", "2">>
    /\ assigned = <<One, Two, Two>>
    /\ Unwrap(find_task(Two).task).props = TaskA.props
    /\ pending = [w \in Writers |-> None]

\* The list without its m-th entry, the others in their order.
Without(list, m) == [i \in 1..(Len(list) - 1) |-> IF i < m THEN list[i] ELSE list[i + 1]]

\* The least of a non-empty set of positions.
First(S) == CHOOSE i \in S : \A j \in S : i <= j

\* C36: delete_comment(id) and delete_label(name) return an error and leave the task
\* as it was when the task has no such list or no entry with that key; when an entry
\* matches they remove the first matching entry and nothing else, the others keeping
\* their order.
C36_DeleteFirstMatchOrFail ==
    [][/\ last'.op = "delete_comment" =>
              LET comments == comments_of(Unwrap(held))
                  matches  == {i \in 1..Len(comments) : comments[i].id = Some(last'.ids[1])}
              IN  IF ~IsSome(Unwrap(held).comments) \/ matches = {}
                  THEN last'.status = "err" /\ held' = held
                  ELSE /\ last'.status = "ok"
                       /\ held' = Some([Unwrap(held) EXCEPT !.comments =
                                           Some(Without(comments, First(matches)))])
       /\ last'.op = "delete_label" =>
              LET labels  == labels_of(Unwrap(held))
                  matches == {i \in 1..Len(labels) : labels[i].name = last'.ids[1]}
              IN  IF ~IsSome(Unwrap(held).labels) \/ matches = {}
                  THEN last'.status = "err" /\ held' = held
                  ELSE /\ last'.status = "ok"
                       /\ held' = Some([Unwrap(held) EXCEPT !.labels =
                                           Some(Without(labels, First(matches)))])]_vars

C36_Witness ==
    /\ Succeeded("delete_label")
    /\ last.ids = <<"bug">>
    /\ [i \in 1..Len(labels_of(Unwrap(held))) |-> labels_of(Unwrap(held))[i].name]
           = <<"feature", "bug">>
    /\ [i \in 1..Len(comments_of(Unwrap(held))) |-> comments_of(Unwrap(held))[i].id]
           = <<Some(Two), Some(One)>>

============================================================================
